---- MODULE Spec2Model ----
(***************************************************************************)
(* A model of rs-agent-gear's filesystem service: the atomic writer        *)
(* (src/fs/atomic.rs), edit-by-replace (src/fs/io.rs), the file index      *)
(* (src/fs/index.rs), the debouncer and watcher (src/fs/watcher.rs) and    *)
(* the facade with its watcher loop (src/fs/mod.rs).                       *)
(***************************************************************************)
EXTENDS Integers, Sequences, FiniteSets, TLC

(***************************************************************************)
(* Bounds of the model.                                                    *)
(***************************************************************************)
\* longest file content drawn for the initial file and for write_file
MaxContent == 2
\* longest old_text drawn for edit_replace
MaxPat == 2
\* longest new_text drawn for edit_replace
MaxNew == 1
\* inodes of the modelled directory (target, temporaries, one pinned by a reader)
MaxInodes == 4
\* the clock stops after this many ticks
MaxTime == 3
\* changes the environment makes to the tree beside the watcher loop
MaxChanges == 2
\* changes the environment makes to the tree beside the first build
MaxBuildChanges == 1
\* calls of refresh()
MaxRefresh == 1

(***************************************************************************)
(* The state                                                               *)
(***************************************************************************)
VARIABLES
    gil,        \* the interpreter lock: the thread holding it, or "free"
    dir_exists, \* whether parent(path) exists
    names,      \* directory entries: file name -> inode (0: no such name)
    data,       \* inode -> bytes
    th,         \* per calling thread: position in its call, arguments, result
    rd,         \* a reader that opens the target by name and reads it
    file0       \* history: the target as it was before any call

VARIABLES
    sfiles,     \* the tree under the Searcher's root: path -> kind and bytes
    gr          \* a Searcher call: arguments, file list, result_count, cancelled,
                \* the per-file tasks of the parallel iterator, the result

searchvars == <<sfiles, gr>>

VARIABLES
    db,         \* a Debouncer called directly: the last call, what it found and
                \* returned, and when add_event was last called for each path
    gc,         \* FileIndex.glob_cache and the threads inside compile_glob
    pch,        \* the caller of pending_changes(): calls left, the last count
    rb,         \* a read_batch call: the paths, the files they name, the workers'
                \* positions, what each read returned, the result
    pe          \* history of process_events() called directly: the raw events
                \* the last call received

auxvars == <<db, gc, pch, rb, pe>>

\* the file operations' variables but the interpreter lock, the Searcher's,
\* and those of the calls made beside the index
fsrest == <<dir_exists, names, data, th, rd, file0, searchvars, auxvars>>

fsvars == <<gil, fsrest>>

VARIABLES
    disk,          \* the tree under root: path -> "none", "dir", "text" or "binary"
    changes_left,  \* how many more changes the environment makes to the tree
    now,           \* Instant::now(), in ticks of TickMs milliseconds
    event_rx,      \* FileWatcher.event_rx: raw events sent and not yet received
    pending,       \* Debouncer.pending: path -> (kind, timestamp)
    stop_flag,     \* FileSystem.stop_flag
    entries,       \* FileIndex.entries: path -> metadata
    dir_children,  \* FileIndex.dir_children: directory -> child paths
    all_files,     \* FileIndex.all_files
    is_ready,      \* FileIndex.is_ready
    is_building,   \* FileIndex.is_building
    bth,           \* the threads that run build(): position, walk state, local all_files
    refresh_left,  \* how many more times refresh() is called
    wl,            \* the watcher loop thread: position, flushed events, operands
    q,             \* a thread that runs queries: position, arguments, result
    tree_changed   \* history: a path appeared or vanished since the running build began

idxvars == <<disk, changes_left, now, event_rx, pending, stop_flag, entries,
             dir_children, all_files, is_ready, is_building, bth, refresh_left,
             wl, q, tree_changed>>

vars == <<fsvars, idxvars>>

\* what the file operations leave alone
FilesFrame == UNCHANGED <<file0, searchvars, auxvars, idxvars>>

(***************************************************************************)
(* Part I.  Files as bytes: atomic_write, write_file, edit_replace         *)
(***************************************************************************)
Alphabet == {"a", "b"}
IoThreads == {"t1", "t2"}
Target == "target"
TmpNames == {"tmp1", "tmp2"}
FileNames == {Target} \cup TmpNames
Inodes == 1..MaxInodes

SeqsUpTo(n) == UNION {[1..k -> Alphabet] : k \in 0..n}

\* Option<bytes>: a file's content, or no file
NoFile == [ex |-> FALSE, bytes |-> <<>>]
File(c) == [ex |-> TRUE, bytes |-> c]

\* what open-by-name followed by a full read yields
Lookup(nm) == IF names[nm] = 0 THEN NoFile ELSE File(data[names[nm]])

InodesInUse == {names[nm] : nm \in FileNames} \cup {rd.fd}
FreeInodes == Inodes \ InodesInUse
MinOf(S) == CHOOSE x \in S : \A y \in S : x <= y
FreeTmpNames == {nm \in TmpNames : names[nm] = 0}
FirstFreeTmp == CHOOSE nm \in FreeTmpNames : \A o \in FreeTmpNames : nm = "tmp1" \/ o # "tmp1"

\* an inode that no name and no descriptor refers to is released
Release(nms, d, fd) ==
    [i \in Inodes |-> IF i \in {nms[nm] : nm \in FileNames} \cup {fd} THEN d[i] ELSE <<>>]

(*------------------------- results of a call ----------------------------*)
NoRet == [tag |-> "none", n |-> 0]
Ret(tag) == [tag |-> tag, n |-> 0]
TextNotUnique(n) == [tag |-> "TextNotUnique", n |-> n]

IdleThread ==
    [pc |-> "idle", op |-> "none", content |-> <<>>, old |-> <<>>, new |-> <<>>,
     strict |-> FALSE, tmp |-> "none", written |-> 0, ret |-> NoRet,
     pre |-> NoFile, pre_dir |-> FALSE, seen |-> NoFile]
OffThread == [IdleThread EXCEPT !.pc = "off"]

(*------------------- str::matches(..).count(), str::replace -------------*)
RECURSIVE CountFrom(_, _, _)
CountFrom(s, pat, i) ==
    IF i + Len(pat) - 1 > Len(s) THEN 0
    ELSE IF SubSeq(s, i, i + Len(pat) - 1) = pat
         THEN 1 + CountFrom(s, pat, i + Len(pat))
         ELSE CountFrom(s, pat, i + 1)

\* content.matches(old_text).count(): leftmost, non-overlapping matches; the
\* empty pattern matches at every boundary
matches_count(s, pat) == IF Len(pat) = 0 THEN Len(s) + 1 ELSE CountFrom(s, pat, 1)

RECURSIVE ReplaceFrom(_, _, _, _)
ReplaceFrom(s, pat, to, i) ==
    IF i > Len(s) THEN <<>>
    ELSE IF i + Len(pat) - 1 <= Len(s) /\ SubSeq(s, i, i + Len(pat) - 1) = pat
         THEN to \o ReplaceFrom(s, pat, to, i + Len(pat))
         ELSE <<s[i]>> \o ReplaceFrom(s, pat, to, i + 1)

RECURSIVE ReplaceEmpty(_, _, _)
ReplaceEmpty(s, to, i) ==
    IF i > Len(s) THEN to ELSE to \o <<s[i]>> \o ReplaceEmpty(s, to, i + 1)

\* a replacement that stops after the first match (str::replacen(.., 1))
ReplaceFirst(s, pat, to) ==
    IF Len(pat) = 0 THEN to \o s
    ELSE LET hits == {i \in 1..Len(s) : i + Len(pat) - 1 <= Len(s)
                                        /\ SubSeq(s, i, i + Len(pat) - 1) = pat}
         IN IF hits = {} THEN s
            ELSE LET i == MinOf(hits)
                 IN SubSeq(s, 1, i - 1) \o to \o SubSeq(s, i + Len(pat), Len(s))

\* content.replace(old_text, new_text)
replace(s, pat, to) ==
    IF Len(pat) = 0 THEN ReplaceEmpty(s, to, 1) ELSE ReplaceFrom(s, pat, to, 1)

(*--------------------------- the interpreter lock -----------------------*)
\* FileSystem::write_file: called with the lock held; resolve_path, then io::write_file
write_file(t, c) ==
    /\ th[t].pc = "idle"
    /\ gil = "free"
    /\ gil' = t
    /\ th' = [th EXCEPT ![t] = [IdleThread EXCEPT !.pc = "enter", !.op = "write",
                                 !.content = c, !.pre = Lookup(Target),
                                 !.pre_dir = dir_exists]]
    /\ UNCHANGED <<dir_exists, names, data, rd>>
    /\ FilesFrame

\* FileSystem::edit_replace: called with the lock held; resolve_path, then io::edit_replace
edit_replace(t, old, new, strict) ==
    /\ th[t].pc = "idle"
    /\ gil = "free"
    /\ gil' = t
    /\ th' = [th EXCEPT ![t] = [IdleThread EXCEPT !.pc = "enter", !.op = "edit",
                                 !.old = old, !.new = new, !.strict = strict,
                                 !.pre = Lookup(Target), !.pre_dir = dir_exists]]
    /\ UNCHANGED <<dir_exists, names, data, rd>>
    /\ FilesFrame

\* py.allow_threads: the body runs with the lock released
allow_threads(t) ==
    /\ th[t].pc = "enter"
    /\ gil = t
    /\ gil' = "free"
    /\ th' = [th EXCEPT ![t].pc = IF th[t].op = "write" THEN "aw_dir" ELSE "ed_read"]
    /\ UNCHANGED <<dir_exists, names, data, rd>>
    /\ FilesFrame

\* the closure has returned: the lock is taken again and the result handed back
call_return(t) ==
    /\ th[t].pc = "leave"
    /\ gil = "free"
    /\ th' = [th EXCEPT ![t].pc = "returned"]
    /\ UNCHANGED <<gil, dir_exists, names, data, rd>>
    /\ FilesFrame

(*------------------------------ atomic_write ----------------------------*)
\* a temporary file that is kept (NamedTempFile::keep, mem::forget)
DropTemp_keep(nms, t) == nms

\* dropping a NamedTempFile removes the file it names
DropTemp(nms, t) == [nms EXCEPT ![th[t].tmp] = 0]

\* an error path that promotes whatever the temporary file holds
FailWith_promote(t, tag) ==
    LET nms == IF th[t].tmp = "none" THEN names
               ELSE [names EXCEPT ![Target] = names[th[t].tmp], ![th[t].tmp] = 0]
    IN /\ names' = nms
       /\ data' = Release(nms, data, rd.fd)
       /\ th' = [th EXCEPT ![t].pc = "leave", ![t].ret = Ret(tag), ![t].tmp = "none"]

\* the early return of `?`: temp_file (if created) goes out of scope
FailWith(t, tag) ==
    LET nms == IF th[t].tmp = "none" THEN names ELSE DropTemp(names, t)
    IN /\ names' = nms
       /\ data' = Release(nms, data, rd.fd)
       /\ th' = [th EXCEPT ![t].pc = "leave", ![t].ret = Ret(tag), ![t].tmp = "none"]

\* if !dir.exists() { create_dir_all(dir)? }
atomic_write_dir(t) ==
    /\ th[t].pc = "aw_dir"
    /\ IF dir_exists
       THEN /\ th' = [th EXCEPT ![t].pc = "aw_tmp"]
            /\ UNCHANGED <<dir_exists, names, data>>
       ELSE \E ok \in BOOLEAN :
               IF ok THEN /\ dir_exists' = TRUE
                          /\ th' = [th EXCEPT ![t].pc = "aw_tmp"]
                          /\ UNCHANGED <<names, data>>
                     ELSE /\ FailWith(t, "Io")
                          /\ UNCHANGED dir_exists
    /\ UNCHANGED <<gil, rd>>
    /\ FilesFrame

\* NamedTempFile::new_in(dir)?: a new, empty, uniquely named file in dir
atomic_write_tmp(t) ==
    /\ th[t].pc = "aw_tmp"
    /\ \E ok \in BOOLEAN :
          IF ok /\ dir_exists /\ FreeInodes # {} /\ FreeTmpNames # {}
          THEN /\ names' = [names EXCEPT ![FirstFreeTmp] = MinOf(FreeInodes)]
               /\ data' = [data EXCEPT ![MinOf(FreeInodes)] = <<>>]
               /\ th' = [th EXCEPT ![t].pc = "aw_write", ![t].tmp = FirstFreeTmp,
                                   ![t].written = 0]
          ELSE FailWith(t, "Io")
    /\ UNCHANGED <<gil, dir_exists, rd>>
    /\ FilesFrame

\* writing in place, as write_file_fast does
WriteDest_inplace(t) == IF names[Target] # 0 THEN Target ELSE th[t].tmp

\* where write_all puts the bytes: the temporary file
WriteDest(t) == th[t].tmp

\* a single write() in place of write_all: a short write passes for a full one
atomic_write_write_once(t) ==
    /\ th[t].pc = "aw_write"
    /\ IF th[t].written = Len(th[t].content)
       THEN /\ th' = [th EXCEPT ![t].pc = "aw_sync"]
            /\ UNCHANGED <<names, data>>
       ELSE /\ data' = [data EXCEPT ![names[th[t].tmp]] =
                            Append(@, th[t].content[th[t].written + 1])]
            /\ th' = [th EXCEPT ![t].written = @ + 1, ![t].pc = "aw_sync"]
            /\ UNCHANGED names
    /\ UNCHANGED <<gil, dir_exists, rd>>
    /\ FilesFrame

\* temp_file.write_all(content)?: one write() per step, each may fail
atomic_write_write(t) ==
    /\ th[t].pc = "aw_write"
    /\ IF th[t].written = Len(th[t].content)
       THEN /\ th' = [th EXCEPT ![t].pc = "aw_sync"]
            /\ UNCHANGED <<names, data>>
       ELSE \E ok \in BOOLEAN :
               IF ok /\ names[WriteDest(t)] # 0
               THEN /\ data' = [data EXCEPT ![names[WriteDest(t)]] =
                                   Append(@, th[t].content[th[t].written + 1])]
                    /\ th' = [th EXCEPT ![t].written = @ + 1]
                    /\ UNCHANGED names
               ELSE FailWith(t, "Io")
    /\ UNCHANGED <<gil, dir_exists, rd>>
    /\ FilesFrame

\* temp_file.as_file().sync_all()?
atomic_write_sync(t) ==
    /\ th[t].pc = "aw_sync"
    /\ \E ok \in BOOLEAN :
          IF ok THEN /\ th' = [th EXCEPT ![t].pc = "aw_persist"]
                     /\ UNCHANGED <<names, data>>
                ELSE FailWith(t, "Io")
    /\ UNCHANGED <<gil, dir_exists, rd>>
    /\ FilesFrame

\* temp_file.persist(path): rename(temp, path); a failed rename hands the
\* NamedTempFile back inside the error, which map_err drops
atomic_write_persist(t) ==
    /\ th[t].pc = "aw_persist"
    /\ \E ok \in BOOLEAN :
          IF ok /\ names[th[t].tmp] # 0
          THEN LET nms == [names EXCEPT ![Target] = names[th[t].tmp], ![th[t].tmp] = 0]
               IN /\ names' = nms
                  /\ data' = Release(nms, data, rd.fd)
                  /\ th' = [th EXCEPT ![t].pc = "leave", ![t].tmp = "none",
                                      ![t].ret = Ret(IF th[t].op = "edit" THEN "true" ELSE "ok")]
          ELSE FailWith(t, "Io")
    /\ UNCHANGED <<gil, dir_exists, rd>>
    /\ FilesFrame

(*------------------------------ edit_replace ----------------------------*)
\* replacing the first match only
NewContent_first(s, pat, to) == ReplaceFirst(s, pat, to)

\* the replacement that is written back
NewContent(s, pat, to) == replace(s, pat, to)

\* a uniqueness check that is off by one
NotUnique_offbyone(count, strict) == count > 2 /\ strict

\* the strict-mode check on the number of matches
NotUnique(count, strict) == count > 1 /\ strict

\* read_to_string, count, the strict checks, replace: up to the atomic write
edit_replace_read(t) ==
    /\ th[t].pc = "ed_read"
    /\ \E ok \in BOOLEAN :
          IF names[Target] = 0
          THEN th' = [th EXCEPT ![t].pc = "leave", ![t].ret = Ret("PathNotFound")]
          ELSE IF ~ok
          THEN th' = [th EXCEPT ![t].pc = "leave", ![t].ret = Ret("Io")]
          ELSE LET content == data[names[Target]]
                   count == matches_count(content, th[t].old)
               IN IF count = 0
                  THEN th' = [th EXCEPT ![t].pc = "leave", ![t].seen = File(content),
                                 ![t].ret = IF th[t].strict THEN Ret("TextNotFound")
                                                            ELSE Ret("false")]
                  ELSE IF NotUnique(count, th[t].strict)
                  THEN th' = [th EXCEPT ![t].pc = "leave", ![t].seen = File(content),
                                 ![t].ret = TextNotUnique(count)]
                  ELSE th' = [th EXCEPT ![t].pc = "aw_dir", ![t].seen = File(content),
                                 ![t].content = NewContent(content, th[t].old, th[t].new)]
    /\ UNCHANGED <<gil, dir_exists, names, data, rd>>
    /\ FilesFrame

(*------------------------------- a reader -------------------------------*)
InCall(t) == th[t].pc \in {"aw_dir", "aw_tmp", "aw_write", "aw_sync", "aw_persist"}

\* open(path): the descriptor pins the inode the name refers to now
reader_open ==
    /\ rd.pc # "open"
    /\ names[Target] # 0
    /\ rd' = [pc |-> "open", fd |-> names[Target], obs |-> NoFile,
              during |-> \E t \in IoThreads : InCall(t) /\ th[t].pre.ex]
    /\ data' = Release(names, data, names[Target])
    /\ UNCHANGED <<gil, dir_exists, names, th>>
    /\ FilesFrame

\* read to the end, close
reader_read ==
    /\ rd.pc = "open"
    /\ rd' = [rd EXCEPT !.pc = "done", !.fd = 0, !.obs = File(data[rd.fd])]
    /\ data' = Release(names, data, 0)
    /\ UNCHANGED <<gil, dir_exists, names, th>>
    /\ FilesFrame

(***************************************************************************)
(* Part II.  The index, its builds and queries, the watcher and its loop   *)
(***************************************************************************)
\* Duration::from_millis(100), the debounce window FileSystem::new passes
DebounceMs == 100
\* Duration::from_millis(50), the watcher loop's sleep
SleepMs == 50
\* one tick of the model's clock is one sleep of the watcher loop
TickMs == SleepMs
DebounceTicks == DebounceMs \div TickMs
SleepTicks == SleepMs \div TickMs

(*------------------------------- the tree -------------------------------*)
Root == "/"
Paths == {"d", "d/f", "t"}
PathOrder == <<"d", "d/f", "t">>
Parent(p) == IF p = "d/f" THEN "d" ELSE Root
\* paths that can be directories: those with a child among Paths
CanBeDir == {"d"}
DirKeys == {Root} \cup CanBeDir
\* paths the ignore rules (.gitignore) exclude
Ignored == {"t"}

InDir(dk, p) == IF Parent(p) = Root THEN TRUE ELSE dk[Parent(p)] = "dir"

ValidTree(dk) ==
    \A p \in Paths :
        /\ dk[p] = "dir" => p \in CanBeDir
        /\ dk[p] # "none" => InDir(dk, p)
Trees == {dk \in [Paths -> {"none", "dir", "text", "binary"}] : ValidTree(dk)}

HasChildren(dk, p) == \E c \in Paths : Parent(c) = p /\ dk[c] # "none"
CanCreate(dk, p) == dk[p] = "none" /\ InDir(dk, p)

\* the non-root descendants of root that the ignore rules honour
Honoured(dk) == {p \in Paths : dk[p] # "none" /\ p \notin Ignored}

(*---------------------------- raw notify events -------------------------*)
RawEvent(kind, paths) == [kind |-> kind, paths |-> paths]

\* the events one rename produces, by platform: a single Both event, a
\* From/To pair, or the pair followed by Both
RenameEvents(p, r) ==
    { <<RawEvent("RenameBoth", <<p, r>>)>>,
      <<RawEvent("RenameFrom", <<p>>), RawEvent("RenameTo", <<r>>)>>,
      <<RawEvent("RenameFrom", <<p>>), RawEvent("RenameTo", <<r>>),
        RawEvent("RenameBoth", <<p, r>>)>> }

\* the notify callback: tx.send(res)
Send(evs) == event_rx' = event_rx \o evs

(*---------------------- the environment changes the tree ----------------*)
EnvFrame == UNCHANGED <<fsvars, now, pending, stop_flag, entries, dir_children, all_files,
                        is_ready, is_building, bth, refresh_left, wl, q>>

Changed(dk, evs) ==
    /\ changes_left > 0
    /\ changes_left' = changes_left - 1
    /\ disk' = dk
    /\ tree_changed' = (tree_changed \/ \E p \in Paths : (dk[p] = "none") # (disk[p] = "none"))
    /\ Send(evs)
    /\ EnvFrame

env_create ==
    \E p \in Paths, k \in {"dir", "text", "binary"} :
        /\ CanCreate(disk, p)
        /\ k = "dir" => p \in CanBeDir
        /\ Changed([disk EXCEPT ![p] = k], <<RawEvent("Create", <<p>>)>>)

env_modify ==
    \E p \in Paths :
        /\ disk[p] \in {"text", "binary"}
        /\ Changed([disk EXCEPT ![p] = IF disk[p] = "text" THEN "binary" ELSE "text"],
                   <<RawEvent("ModifyData", <<p>>)>>)

env_delete ==
    \E p \in Paths :
        /\ disk[p] # "none"
        /\ ~HasChildren(disk, p)
        /\ Changed([disk EXCEPT ![p] = "none"], <<RawEvent("Remove", <<p>>)>>)

\* rename of a file or of an empty directory onto a free name
env_rename ==
    \E p, r \in Paths :
        /\ p # r
        /\ disk[p] # "none"
        /\ ~HasChildren(disk, p)
        /\ CanCreate(disk, r)
        /\ Parent(r) # p
        /\ disk[p] = "dir" => r \in CanBeDir
        /\ \E evs \in RenameEvents(p, r) :
              Changed([disk EXCEPT ![p] = "none", ![r] = disk[p]], evs)

\* time passes
Tick ==
    /\ now < MaxTime
    /\ now' = now + 1
    /\ UNCHANGED <<fsvars, disk, changes_left, event_rx, pending, stop_flag, entries,
                   dir_children, all_files, is_ready, is_building, bth,
                   refresh_left, wl, q, tree_changed>>

(*------------------------------- Debouncer ------------------------------*)
\* ChangeKind
Created == [k |-> "Created", from |-> "-", to |-> "-"]
Modified == [k |-> "Modified", from |-> "-", to |-> "-"]
Deleted == [k |-> "Deleted", from |-> "-", to |-> "-"]
Renamed(from, to) == [k |-> "Renamed", from |-> from, to |-> to]

NoPending == [some |-> FALSE, kind |-> Deleted, ts |-> 0]
Pending(kind, ts) == [some |-> TRUE, kind |-> kind, ts |-> ts]
FileChange(path, kind, ts) == [path |-> path, kind |-> kind, timestamp |-> ts]

add_event_overwrite(pend, path, kind, t) ==
    IF pend[path].some /\ pend[path].kind = Created /\ kind = Modified
    THEN pend
    ELSE [pend EXCEPT ![path] = Pending(kind, t)]

add_event_advance(pend, path, kind, t) ==
    IF pend[path].some /\ pend[path].kind = Created /\ kind = Deleted
    THEN [pend EXCEPT ![path] = NoPending]
    ELSE IF pend[path].some /\ pend[path].kind = Created /\ kind = Modified
    THEN [pend EXCEPT ![path] = Pending(Created, t)]
    ELSE [pend EXCEPT ![path] = Pending(kind, t)]

add_event_keep_ts(pend, path, kind, t) ==
    IF pend[path].some /\ pend[path].kind = Created /\ kind = Deleted
    THEN [pend EXCEPT ![path] = NoPending]
    ELSE IF pend[path].some /\ pend[path].kind = Created /\ kind = Modified
    THEN pend
    ELSE [pend EXCEPT ![path] = Pending(kind, IF pend[path].some THEN pend[path].ts ELSE t)]

\* Debouncer::add_event at time t
add_event(pend, path, kind, t) ==
    IF pend[path].some /\ pend[path].kind = Created /\ kind = Deleted
    THEN [pend EXCEPT ![path] = NoPending]
    ELSE IF pend[path].some /\ pend[path].kind = Created /\ kind = Modified
    THEN pend
    ELSE [pend EXCEPT ![path] = Pending(kind, t)]

EventChanges_first_path(ev) ==
    IF ev.kind = "RenameBoth"
    THEN IF Len(ev.paths) >= 2
         THEN <<[path |-> ev.paths[1], kind |-> Renamed(ev.paths[1], ev.paths[2])]>>
         ELSE <<>>
    ELSE IF ev.kind \in {"Create", "RenameTo"} /\ ev.paths # <<>>
    THEN <<[path |-> ev.paths[1], kind |-> Created]>>
    ELSE IF ev.kind = "ModifyData" /\ ev.paths # <<>>
    THEN <<[path |-> ev.paths[1], kind |-> Modified]>>
    ELSE IF ev.kind \in {"Remove", "RenameFrom"} /\ ev.paths # <<>>
    THEN <<[path |-> ev.paths[1], kind |-> Deleted]>>
    ELSE <<>>

\* the match on event.kind in process_events: the add_event calls one raw
\* event leads to, as (path, kind) pairs in order
EventChanges(ev) ==
    IF ev.kind = "RenameBoth"
    THEN IF Len(ev.paths) >= 2
         THEN <<[path |-> ev.paths[1], kind |-> Renamed(ev.paths[1], ev.paths[2])]>>
         ELSE <<>>
    ELSE IF ev.kind \in {"Create", "RenameTo"}
    THEN [i \in 1..Len(ev.paths) |-> [path |-> ev.paths[i], kind |-> Created]]
    ELSE IF ev.kind = "ModifyData"
    THEN [i \in 1..Len(ev.paths) |-> [path |-> ev.paths[i], kind |-> Modified]]
    ELSE IF ev.kind \in {"Remove", "RenameFrom"}
    THEN [i \in 1..Len(ev.paths) |-> [path |-> ev.paths[i], kind |-> Deleted]]
    ELSE <<>>

RECURSIVE AddChanges(_, _, _)
AddChanges(pend, chs, t) ==
    IF chs = <<>> THEN pend
    ELSE AddChanges(add_event(pend, chs[1].path, chs[1].kind, t), Tail(chs), t)

\* the loop over raw_events in process_events
RECURSIVE AddRaw(_, _, _)
AddRaw(pend, raw, t) ==
    IF raw = <<>> THEN pend
    ELSE AddRaw(AddChanges(pend, EventChanges(raw[1]), t), Tail(raw), t)

FlushReady_strict(pend, t) == {p \in Paths : pend[p].some /\ t - pend[p].ts > DebounceTicks}

\* Debouncer::flush at time t: the paths whose entry is returned and removed
FlushReady(pend, t) == {p \in Paths : pend[p].some /\ t - pend[p].ts >= DebounceTicks}

\* the orders in which a HashMap may iterate over S
Orders(S) == {s \in [1..Cardinality(S) -> S] : \A i, j \in 1..Cardinality(S) :
                                                   i # j => s[i] # s[j]}

\* the debouncer's pending map once every received event has been added
Debounced == AddRaw(pending, event_rx, now)

\* the Vec<FileChange> that flush may return, in any iteration order
Flushed ==
    {[i \in 1..Cardinality(FlushReady(Debounced, now)) |->
         FileChange(s[i], Debounced[s[i]].kind, Debounced[s[i]].ts)] :
     s \in Orders(FlushReady(Debounced, now))}

\* FileWatcher::process_events: drain event_rx, add every event to the
\* debouncer, flush; `out` is the Vec<FileChange> returned
process_events(out) ==
    /\ out \in Flushed
    /\ event_rx' = <<>>
    /\ pending' = [p \in Paths |-> IF p \in FlushReady(Debounced, now) THEN NoPending
                                                                      ELSE Debounced[p]]

(*--------------------------- FileMetadata, index ------------------------*)
NoEntry == [some |-> FALSE, is_dir |-> FALSE, is_binary |-> FALSE]
\* the FileMetadata read from a path of the given kind
Metadata(kind) == [some |-> TRUE, is_dir |-> kind = "dir", is_binary |-> kind = "binary"]

NoChildren == [some |-> FALSE, kids |-> <<>>]
\* dir_children.entry(parent).or_default().push(path)
PushChild(dc, p) ==
    [dc EXCEPT ![Parent(p)] = [some |-> TRUE, kids |-> Append(dc[Parent(p)].kids, p)]]

Without(s, p) == SelectSeq(s, LAMBDA x : x # p)
Contains(s, p) == \E i \in 1..Len(s) : s[i] = p
Range(s) == {s[i] : i \in 1..Len(s)}

PushNew_always(files, p) == Append(files, p)

\* if !files.contains(path) { files.push(path) }
PushNew(files, p) == IF Contains(files, p) THEN files ELSE Append(files, p)

Retain_all(s, p) == s

\* retain(|p| p != path)
Retain(s, p) == Without(s, p)

(*--------------------------- build() and refresh() ----------------------*)
BuildThreads == {"bg", "caller"}

\* the interpreter lock once a call of thread t has returned: the thread the
\* constructor spawned never holds it
Unlocked(t) == IF gil = t THEN "free" ELSE gil
IdleBuild == [pc |-> "idle", todo |-> {}, found |-> {}, files |-> <<>>, built |-> FALSE]

BuildFrame == UNCHANGED <<fsrest, disk, changes_left, now, event_rx, pending, stop_flag, wl, q>>

\* FileSystem::refresh, called with the interpreter lock held, and
\* FileIndex::refresh: is_ready.store(false), then build()
refresh(t) ==
    /\ t = "caller"
    /\ bth[t].pc \in {"idle", "done"}
    /\ refresh_left > 0
    /\ gil = "free"
    /\ gil' = t
    /\ refresh_left' = refresh_left - 1
    /\ is_ready' = FALSE
    /\ bth' = [bth EXCEPT ![t] = [IdleBuild EXCEPT !.pc = "cas"]]
    /\ UNCHANGED <<entries, dir_children, all_files, is_building, tree_changed>>
    /\ BuildFrame

build_cas_unguarded(t) ==
    /\ bth[t].pc = "cas"
    /\ is_building' = TRUE
    /\ tree_changed' = FALSE
    /\ bth' = [bth EXCEPT ![t].pc = "clear_entries"]
    /\ UNCHANGED <<gil, entries, dir_children, all_files, is_ready, refresh_left>>
    /\ BuildFrame

\* build(): is_building.compare_exchange(false, true); on failure return Ok(())
build_cas(t) ==
    /\ bth[t].pc = "cas"
    /\ IF is_building
       THEN /\ bth' = [bth EXCEPT ![t].pc = "done", ![t].built = FALSE]
            /\ gil' = Unlocked(t)
            /\ UNCHANGED <<is_building, tree_changed>>
       ELSE /\ is_building' = TRUE
            /\ tree_changed' = FALSE
            /\ bth' = [bth EXCEPT ![t].pc = "clear_entries"]
            /\ UNCHANGED gil
    /\ UNCHANGED <<entries, dir_children, all_files, is_ready, refresh_left>>
    /\ BuildFrame

\* self.entries.clear()
build_clear_entries(t) ==
    /\ UNCHANGED gil
    /\ bth[t].pc = "clear_entries"
    /\ entries' = [p \in Paths |-> NoEntry]
    /\ bth' = [bth EXCEPT ![t].pc = "clear_children"]
    /\ UNCHANGED <<dir_children, all_files, is_ready, is_building, refresh_left, tree_changed>>
    /\ BuildFrame

\* self.dir_children.clear(); let mut all_files = Vec::new(); the walker starts at root
build_clear_children(t) ==
    /\ UNCHANGED gil
    /\ bth[t].pc = "clear_children"
    /\ dir_children' = [k \in DirKeys |-> NoChildren]
    /\ bth' = [bth EXCEPT ![t].pc = "walk", ![t].todo = {Root}, ![t].found = {},
                          ![t].files = <<>>]
    /\ UNCHANGED <<entries, all_files, is_ready, is_building, refresh_left, tree_changed>>
    /\ BuildFrame

\* the walker reads one directory: the children it holds now, less the ignored
build_list(t) ==
    /\ UNCHANGED gil
    /\ bth[t].pc = "walk"
    /\ \E dir \in bth[t].todo :
          bth' = [bth EXCEPT ![t].todo = @ \ {dir},
                             ![t].found = @ \cup {p \in Paths : /\ Parent(p) = dir
                                                                /\ disk[p] # "none"
                                                                /\ p \notin Ignored}]
    /\ UNCHANGED <<entries, dir_children, all_files, is_ready, is_building,
                   refresh_left, tree_changed>>
    /\ BuildFrame

\* the walker's closure on one entry: metadata, entries.insert, dir_children
\* push, push onto the local all_files; a directory is read next
build_visit(t) ==
    /\ UNCHANGED gil
    /\ bth[t].pc = "walk"
    /\ \E p \in bth[t].found :
          IF disk[p] = "none"
          THEN /\ bth' = [bth EXCEPT ![t].found = @ \ {p}]
               /\ UNCHANGED <<entries, dir_children>>
          ELSE /\ entries' = [entries EXCEPT ![p] = Metadata(disk[p])]
               /\ dir_children' = PushChild(dir_children, p)
               /\ bth' = [bth EXCEPT ![t].found = @ \ {p},
                             ![t].todo = IF disk[p] = "dir" THEN @ \cup {p} ELSE @,
                             ![t].files = IF disk[p] = "dir" THEN @ ELSE Append(@, p)]
    /\ UNCHANGED <<all_files, is_ready, is_building, refresh_left, tree_changed>>
    /\ BuildFrame

\* the walk is over: *files = all_files
build_replace(t) ==
    /\ UNCHANGED gil
    /\ bth[t].pc = "walk"
    /\ bth[t].todo = {}
    /\ bth[t].found = {}
    /\ all_files' = bth[t].files
    /\ bth' = [bth EXCEPT ![t].pc = "set_ready"]
    /\ UNCHANGED <<entries, dir_children, is_ready, is_building, refresh_left, tree_changed>>
    /\ BuildFrame

\* self.is_ready.store(true)
build_set_ready(t) ==
    /\ UNCHANGED gil
    /\ bth[t].pc = "set_ready"
    /\ is_ready' = TRUE
    /\ bth' = [bth EXCEPT ![t].pc = "clear_building"]
    /\ UNCHANGED <<entries, dir_children, all_files, is_building, refresh_left, tree_changed>>
    /\ BuildFrame

build_done_unready(t) ==
    /\ bth[t].pc = "clear_building"
    /\ is_building' = FALSE
    /\ is_ready' = FALSE
    /\ bth' = [bth EXCEPT ![t].pc = "done", ![t].built = TRUE]
    /\ gil' = Unlocked(t)
    /\ UNCHANGED <<entries, dir_children, all_files, refresh_left, tree_changed>>
    /\ BuildFrame

\* self.is_building.store(false); Ok(())
build_done(t) ==
    /\ bth[t].pc = "clear_building"
    /\ is_building' = FALSE
    /\ bth' = [bth EXCEPT ![t].pc = "done", ![t].built = TRUE]
    /\ gil' = Unlocked(t)
    /\ UNCHANGED <<entries, dir_children, all_files, is_ready, refresh_left, tree_changed>>
    /\ BuildFrame

\* between entries.clear() and the replacement of all_files
Rebuilding(t) == bth[t].pc \in {"clear_children", "walk"}

(*-------------------------------- queries -------------------------------*)
Patterns == {"**/*", "d/*"}
\* matcher.is_match(relative), and the match_all fast path
GlobMatch(pattern, p) == IF pattern = "**/*" THEN TRUE ELSE p = "d/f"

IdleQuery == [pc |-> "idle", op |-> "none", pattern |-> "**/*", flag |-> FALSE,
              ret |-> "none", res |-> <<>>, partial |-> FALSE,
              query |-> "a", lookup |-> "none", via |-> "-"]

QueryFrame == UNCHANGED <<fsrest, disk, changes_left, now, event_rx, pending, stop_flag, entries,
                          dir_children, all_files, is_ready, is_building, bth,
                          refresh_left, wl, tree_changed>>

\* a query of the facade, called with the interpreter lock held:
\* if !self.is_ready() { return Err(IndexNotReady) }
ReadyCheck(op, pattern, flag) ==
    /\ q.pc \in {"idle", "done"}
    /\ gil = "free"
    /\ gil' = IF is_ready THEN "q" ELSE "free"
    /\ q' = IF is_ready
            THEN [IdleQuery EXCEPT !.pc = "read", !.op = op, !.pattern = pattern,
                                   !.flag = flag]
            ELSE [IdleQuery EXCEPT !.pc = "done", !.op = op, !.pattern = pattern,
                                   !.flag = flag, !.ret = "IndexNotReady"]
    /\ QueryFrame

\* FileIndex::list(pattern, only_files); glob(pattern) is list(pattern, true)
list(pattern, only_files) == ReadyCheck("list", pattern, only_files)

\* FileIndex::glob_paths_with_options(pattern, skip_binary)
glob_paths_with_options(pattern, skip_binary) ==
    ReadyCheck("glob_paths", pattern, skip_binary)

\* the Vec that list returns: from all_files, or from an iteration over entries
ListResult(pattern, only_files) ==
    IF only_files
    THEN SelectSeq(all_files, LAMBDA p : GlobMatch(pattern, p))
    ELSE SelectSeq(PathOrder, LAMBDA p : entries[p].some /\ GlobMatch(pattern, p))

\* the Vec that glob_paths_with_options returns
GlobPathsResult(pattern, skip_binary) ==
    SelectSeq(all_files, LAMBDA p : /\ GlobMatch(pattern, p)
                                    /\ skip_binary => ~entries[p].is_binary)

\* the query consults entries (list of all entries, or the is_binary filter)
ReadsEntries(w) == (w.op = "list" /\ ~w.flag) \/ (w.op = "glob_paths" /\ w.flag)

\* entries is being repopulated and lacks a path of the tree that is to be indexed
PartlyPopulated ==
    \E t \in BuildThreads :
        Rebuilding(t) /\ \E p \in Honoured(disk) : ~entries[p].some

\* the rest of the query: all_files.read(), the iteration, Ok(results)
query_read ==
    /\ q.op \in {"list", "glob_paths"}
    /\ q.pc = "read"
    /\ gil' = "free"
    /\ q' = [q EXCEPT !.pc = "done", !.ret = "Ok",
                      !.res = IF q.op = "list" THEN ListResult(q.pattern, q.flag)
                                               ELSE GlobPathsResult(q.pattern, q.flag),
                      !.partial = ReadsEntries(q) /\ PartlyPopulated]
    /\ QueryFrame

(*---------------------- the watcher loop and close() --------------------*)
\* history: the index as the last add_path, update_path or remove_path call
\* found it; ts is the timestamp of the flushed change that the loop is
\* applying (-1: none)
NoPre == [entries |-> [p \in Paths |-> NoEntry],
          dir_children |-> [k \in DirKeys |-> NoChildren], all_files |-> <<>>]

IdleWatcher == [pc |-> "check", events |-> <<>>, path |-> "-", then |-> "-",
                meta |-> NoEntry, removed |-> NoEntry, wake |-> 0,
                call |-> "-", arg |-> "-", returned |-> FALSE, pre |-> NoPre,
                ts |-> -1]

\* the loop calls add_path, update_path or remove_path on w.path
Begin(w, call) ==
    [w EXCEPT !.call = call, !.arg = w.path, !.returned = FALSE,
              !.pre = [entries |-> entries, dir_children |-> dir_children,
                       all_files |-> all_files]]

WatcherFrame == UNCHANGED <<fsvars, disk, changes_left, now, stop_flag, is_ready, is_building,
                            bth, refresh_left, q, tree_changed>>

\* the `for event in events` loop and its match on event.kind: the call the
\* next event leads to, or the sleep once the events are used up
StartNext(w) ==
    IF w.events = <<>>
    THEN [w EXCEPT !.pc = "sleep", !.wake = now + SleepTicks, !.path = "-", !.then = "-",
                   !.meta = NoEntry, !.removed = NoEntry, !.ts = -1]
    ELSE LET e == Head(w.events)
         IN [w EXCEPT !.events = Tail(w.events),
                      !.path = IF e.kind.k = "Renamed" THEN e.kind.from ELSE e.path,
                      !.then = IF e.kind.k = "Renamed" THEN e.kind.to ELSE "-",
                      !.pc = IF e.kind.k = "Created" THEN "add_stat"
                             ELSE IF e.kind.k = "Modified" THEN "upd_stat"
                             ELSE "rm_entries",
                      !.meta = NoEntry, !.removed = NoEntry, !.ts = e.timestamp]

\* the current index call returns: for Renamed, add_path(to) follows remove_path(from)
Continue(w) ==
    IF w.then # "-"
    THEN [w EXCEPT !.pc = "add_stat", !.path = w.then, !.then = "-",
                   !.meta = NoEntry, !.removed = NoEntry, !.returned = TRUE]
    ELSE [StartNext(w) EXCEPT !.returned = TRUE]

\* if stop_flag.load() { break }
watcher_check ==
    /\ wl.pc = "check"
    /\ wl' = [wl EXCEPT !.pc = IF stop_flag THEN "exit" ELSE "process"]
    /\ UNCHANGED <<event_rx, pending, entries, dir_children, all_files>>
    /\ WatcherFrame

\* let events = watcher.process_events()
watcher_process ==
    /\ wl.pc = "process"
    /\ \E out \in Flushed :
          /\ process_events(out)
          /\ wl' = StartNext([wl EXCEPT !.events = out])
    /\ UNCHANGED <<entries, dir_children, all_files>>
    /\ WatcherFrame

\* std::thread::sleep(Duration::from_millis(50)) is over
watcher_wake ==
    /\ wl.pc = "sleep"
    /\ now >= wl.wake
    /\ wl' = [wl EXCEPT !.pc = "check"]
    /\ UNCHANGED <<event_rx, pending, entries, dir_children, all_files>>
    /\ WatcherFrame

\* add_path: path.exists(), fs::metadata, is_binary_file
add_path_stat ==
    /\ wl.pc = "add_stat"
    /\ wl' = IF disk[wl.path] = "none" THEN Continue(Begin(wl, "add_path"))
             ELSE [Begin(wl, "add_path") EXCEPT !.pc = "add_entries",
                                                !.meta = Metadata(disk[wl.path])]
    /\ UNCHANGED <<event_rx, pending, entries, dir_children, all_files>>
    /\ WatcherFrame

\* add_path: self.entries.insert(path, file_metadata)
add_path_entries ==
    /\ wl.pc = "add_entries"
    /\ entries' = [entries EXCEPT ![wl.path] = wl.meta]
    /\ wl' = [wl EXCEPT !.pc = "add_children"]
    /\ UNCHANGED <<event_rx, pending, dir_children, all_files>>
    /\ WatcherFrame

\* add_path: dir_children.entry(parent).or_default().push(path)
add_path_children ==
    /\ wl.pc = "add_children"
    /\ dir_children' = PushChild(dir_children, wl.path)
    /\ wl' = IF wl.meta.is_dir THEN Continue(wl) ELSE [wl EXCEPT !.pc = "add_files"]
    /\ UNCHANGED <<event_rx, pending, entries, all_files>>
    /\ WatcherFrame

\* add_path: if !files.contains(path) { files.push(path) }
add_path_files ==
    /\ wl.pc = "add_files"
    /\ all_files' = PushNew(all_files, wl.path)
    /\ wl' = Continue(wl)
    /\ UNCHANGED <<event_rx, pending, entries, dir_children>>
    /\ WatcherFrame

\* update_path: path.exists(), fs::metadata, is_binary_file
update_path_stat ==
    /\ wl.pc = "upd_stat"
    /\ wl' = IF disk[wl.path] = "none" THEN Continue(Begin(wl, "update_path"))
             ELSE [Begin(wl, "update_path") EXCEPT !.pc = "upd_entries",
                                                   !.meta = Metadata(disk[wl.path])]
    /\ UNCHANGED <<event_rx, pending, entries, dir_children, all_files>>
    /\ WatcherFrame

\* update_path: self.entries.insert(path, file_metadata)
update_path_entries ==
    /\ wl.pc = "upd_entries"
    /\ entries' = [entries EXCEPT ![wl.path] = wl.meta]
    /\ wl' = Continue(wl)
    /\ UNCHANGED <<event_rx, pending, dir_children, all_files>>
    /\ WatcherFrame

\* remove_path: let removed = self.entries.remove(path)
remove_path_entries ==
    /\ wl.pc = "rm_entries"
    /\ entries' = [entries EXCEPT ![wl.path] = NoEntry]
    /\ wl' = [Begin(wl, "remove_path") EXCEPT !.pc = "rm_children",
                                              !.removed = entries[wl.path]]
    /\ UNCHANGED <<event_rx, pending, dir_children, all_files>>
    /\ WatcherFrame

\* remove_path: children.retain(|p| p != path) on the parent's list, then
\* dir_children.remove(path)
remove_path_children ==
    /\ wl.pc = "rm_children"
    /\ dir_children' =
          [k \in DirKeys |->
              IF k = wl.path THEN NoChildren
              ELSE IF k = Parent(wl.path) /\ dir_children[k].some
              THEN [some |-> TRUE, kids |-> Retain(dir_children[k].kids, wl.path)]
              ELSE dir_children[k]]
    /\ wl' = IF wl.removed.some /\ ~wl.removed.is_dir THEN [wl EXCEPT !.pc = "rm_files"]
             ELSE Continue(wl)
    /\ UNCHANGED <<event_rx, pending, entries, all_files>>
    /\ WatcherFrame

\* remove_path: files.retain(|p| p != path)
remove_path_files ==
    /\ wl.pc = "rm_files"
    /\ all_files' = Retain(all_files, wl.path)
    /\ wl' = Continue(wl)
    /\ UNCHANGED <<event_rx, pending, entries, dir_children>>
    /\ WatcherFrame

\* FileSystem::close: stop_flag.store(true); watcher.stop()
close ==
    /\ ~stop_flag
    /\ stop_flag' = TRUE
    /\ UNCHANGED <<fsvars, disk, changes_left, now, event_rx, pending, entries, dir_children,
                   all_files, is_ready, is_building, bth, refresh_left, wl, q,
                   tree_changed>>

(***************************************************************************)
(* Part III.  The Searcher: grep over a list of files, in parallel         *)
(***************************************************************************)
\* the longest file searched, in bytes
MaxFileLen == 3
\* the largest max_results asked for
MaxResults == 2
\* SearchOptions.max_file_size as the facade sets it: 10 * 1024 * 1024
max_file_size == 10485760

\* the files under the Searcher's root, named relative to it; none of them is
\* excluded by the ignore rules
SearchPaths == {"d/f", "g"}
SearchChars == {"A", "\n"}
Contents == UNION {[1..n -> SearchChars] : n \in 0..MaxFileLen}

\* a path of the tree: no file, a UTF-8 text file, a file with a NUL byte in
\* its first 512 bytes, or a file that is not UTF-8 and has no NUL byte
NoSFile == [kind |-> "none", bytes |-> <<>>]
SFiles == {NoSFile} \cup {[kind |-> "binary", bytes |-> <<>>]}
              \cup {[kind |-> "invalid", bytes |-> <<>>]}
              \cup {[kind |-> "text", bytes |-> c] : c \in Contents}

\* query: a regex of one literal character, or one that does not compile
Queries == {"a", "A", "("}
RegexCompiles(query) == query # "("
\* glob_pattern: "[" does not compile
SearchPatterns == Patterns \cup {"["}
GlobCompiles(pattern) == pattern # "["

Lower(c) == IF c = "A" THEN "a" ELSE c

is_match_nocase(query, case_sensitive, line) ==
    \E i \in 1..Len(line) : Lower(line[i]) = Lower(query)

\* regex.is_match(line), the regex built case sensitive or case insensitive
is_match(query, case_sensitive, line) ==
    \E i \in 1..Len(line) :
        IF case_sensitive THEN line[i] = query ELSE Lower(line[i]) = Lower(query)

RECURSIVE SplitLines(_, _)
SplitLines(s, cur) ==
    IF s = <<>> THEN (IF cur = <<>> THEN <<>> ELSE <<cur>>)
    ELSE IF Head(s) = "\n" THEN <<cur>> \o SplitLines(Tail(s), <<>>)
    ELSE SplitLines(Tail(s), Append(cur, Head(s)))

\* content.lines(): the runs between line feeds; a final line feed ends the
\* last line and opens no other
lines(content) == SplitLines(content, <<>>)

\* Searcher::is_binary_file: a NUL byte among the first 512 bytes
is_binary_file(f) == f.kind = "binary"

\* collect_files: the files the parallel walker pushes, in any order: not
\* larger than max_size, matching the glob, not binary
Selected(pattern, max_size) ==
    {p \in SearchPaths : /\ sfiles[p].kind # "none"
                         /\ ~(Len(sfiles[p].bytes) > max_size)
                         /\ GlobMatch(pattern, p)
                         /\ ~is_binary_file(sfiles[p])}
collect_files(pattern, max_size) == Orders(Selected(pattern, max_size))

\* Vec<PathBuf> handed to grep_with_files: files in any number and order
FileLists == UNION {Orders(S) : S \in SUBSET SearchPaths}

SearchResult(path, i, line) == [file |-> path, line_number |-> i, content |-> line]

IdleTask == [pc |-> "start", ln |-> 0, lines |-> <<>>, out |-> <<>>]
IdleGrep == [pc |-> "idle", query |-> "a", case_sensitive |-> FALSE, max_results |-> 0,
             pattern |-> "**/*", files |-> <<>>, result_count |-> 0,
             cancelled |-> FALSE, task |-> <<>>, ret |-> "none", results |-> <<>>]

SearchIdle ==
    /\ sfiles = [p \in SearchPaths |-> NoSFile]
    /\ gr = IdleGrep

SearchFrame == UNCHANGED <<gil, dir_exists, names, data, th, rd, file0, sfiles, auxvars,
                            idxvars>>

\* grep_internal up to the parallel iterator: the regex, the files to search,
\* result_count = 0, cancelled = false
grep_internal(query, pattern, case_sensitive, max_results, files) ==
    [IdleGrep EXCEPT !.pc = "search", !.query = query, !.pattern = pattern,
                     !.case_sensitive = case_sensitive, !.max_results = max_results,
                     !.files = files, !.task = [i \in 1..Len(files) |-> IdleTask]]

Failed(err) == [IdleGrep EXCEPT !.pc = "done", !.ret = err]

\* Searcher::grep(query, glob_pattern, options)
grep(query, pattern, case_sensitive, max_results) ==
    /\ gr.pc = "idle"
    /\ IF ~RegexCompiles(query) THEN gr' = Failed("Regex")
       ELSE IF ~GlobCompiles(pattern) THEN gr' = Failed("Glob")
       ELSE \E files \in collect_files(pattern, max_file_size) :
               gr' = grep_internal(query, pattern, case_sensitive, max_results, files)
    /\ SearchFrame

\* Searcher::grep_with_files(query, files, options)
grep_with_files(query, files, case_sensitive, max_results) ==
    /\ gr.pc = "idle"
    /\ gr' = IF ~RegexCompiles(query) THEN Failed("Regex")
             ELSE grep_internal(query, "**/*", case_sensitive, max_results, files)
    /\ SearchFrame

(*------------- the closure of files.par_iter().flat_map(..) -------------*)
\* the task of the i-th file returns the results it holds
Finish(i) == [gr EXCEPT !.task[i].pc = "done"]
Searching(i) == gr.pc = "search" /\ i \in 1..Len(gr.files)

\* if cancelled.load() { return Vec::new() }
grep_task_cancelled(i) ==
    /\ Searching(i)
    /\ gr.task[i].pc = "start"
    /\ gr' = IF gr.cancelled THEN Finish(i) ELSE [gr EXCEPT !.task[i].pc = "limit"]
    /\ SearchFrame

\* if result_count.load() >= max_results { return Vec::new() }
grep_task_limit(i) ==
    /\ Searching(i)
    /\ gr.task[i].pc = "limit"
    /\ gr' = IF gr.result_count >= gr.max_results THEN Finish(i)
             ELSE [gr EXCEPT !.task[i].pc = "enter"]
    /\ SearchFrame

\* search_file: if cancel_flag.load() { return Ok(Vec::new()) }
search_file_cancelled(i) ==
    /\ Searching(i)
    /\ gr.task[i].pc = "enter"
    /\ gr' = IF gr.cancelled THEN Finish(i) ELSE [gr EXCEPT !.task[i].pc = "read"]
    /\ SearchFrame

\* Err(_) => return Ok(Vec::new()): the file is skipped
Skip_cancelling(i) == [Finish(i) EXCEPT !.cancelled = TRUE]

Skip(i) == Finish(i)

\* search_file: metadata, open, mmap or read_to_string, UTF-8 check; on any
\* failure return Ok(Vec::new()); else content.lines()
search_file_read(i) ==
    /\ Searching(i)
    /\ gr.task[i].pc = "read"
    /\ LET f == sfiles[gr.files[i]]
       IN gr' = IF f.kind = "text"
                THEN [gr EXCEPT !.task[i].pc = "loop", !.task[i].ln = 1,
                                !.task[i].lines = lines(f.bytes)]
                ELSE Skip(i)
    /\ SearchFrame

\* the loop over the lines: the next line if any, and cancel_flag.load()
search_file_next(i) ==
    /\ Searching(i)
    /\ gr.task[i].pc = "loop"
    /\ gr' = IF gr.task[i].ln > Len(gr.task[i].lines) \/ gr.cancelled THEN Finish(i)
             ELSE [gr EXCEPT !.task[i].pc = "count"]
    /\ SearchFrame

\* result_count.load() >= max_results breaks; else regex.is_match(line)
search_file_match(i) ==
    /\ Searching(i)
    /\ gr.task[i].pc = "count"
    /\ LET t == gr.task[i]
       IN gr' = IF gr.result_count >= gr.max_results THEN Finish(i)
                ELSE IF is_match(gr.query, gr.case_sensitive, t.lines[t.ln])
                THEN [gr EXCEPT !.task[i].pc = "update"]
                ELSE [gr EXCEPT !.task[i].pc = "loop", !.task[i].ln = t.ln + 1]
    /\ SearchFrame

\* the closure of fetch_update: if current >= max_results { None }
AtLimit_never(current, max_results) == FALSE

AtLimit_above(current, max_results) == current > max_results

AtLimit(current, max_results) == current >= max_results

\* results.push(..)
Push_front(out, r) == <<r>> \o out

Push(out, r) == Append(out, r)

\* if prev + 1 >= max_results { cancel_flag.store(true); break }
LimitReached_early(prev, max_results) == prev + 1 >= max_results - 1

LimitReached_always(prev, max_results) == TRUE

LimitReached(prev, max_results) == prev + 1 >= max_results

\* result_count.fetch_update(..): Err if the count has reached max_results,
\* else count + 1 and results.push(..); the flag is stored next when the
\* update failed or prev + 1 >= max_results
search_file_update(i) ==
    /\ Searching(i)
    /\ gr.task[i].pc = "update"
    /\ LET t == gr.task[i]
           prev == gr.result_count
       IN gr' = IF AtLimit(prev, gr.max_results)
                THEN [gr EXCEPT !.task[i].pc = "cancel"]
                ELSE [gr EXCEPT !.result_count = prev + 1,
                                !.task[i].out =
                                    Push(t.out, SearchResult(gr.files[i], t.ln,
                                                             t.lines[t.ln])),
                                !.task[i].pc = IF LimitReached(prev, gr.max_results)
                                               THEN "cancel" ELSE "loop",
                                !.task[i].ln = IF LimitReached(prev, gr.max_results)
                                               THEN t.ln ELSE t.ln + 1]
    /\ SearchFrame

\* cancel_flag.store(true); break
search_file_cancel(i) ==
    /\ Searching(i)
    /\ gr.task[i].pc = "cancel"
    /\ gr' = [Finish(i) EXCEPT !.cancelled = TRUE]
    /\ SearchFrame

RECURSIVE Collected(_, _)
\* .collect(): the tasks' vectors one after the other, in the order of files
Collected(task, i) ==
    IF i > Len(task) THEN <<>> ELSE task[i].out \o Collected(task, i + 1)

\* results.into_iter().take(max_results)
Take(s, n) == SubSeq(s, 1, IF Len(s) < n THEN Len(s) ELSE n)

\* every task has returned: collect, truncate, Ok(results)
grep_collect ==
    /\ gr.pc = "search"
    /\ \A i \in 1..Len(gr.files) : gr.task[i].pc = "done"
    /\ gr' = [gr EXCEPT !.pc = "done", !.ret = "Ok",
                        !.results = Take(Collected(gr.task, 1), gr.max_results)]
    /\ SearchFrame

(*----------------------------- FileSystem::grep -------------------------*)
\* FileSystem::grep takes the interpreter lock's token and FileSystem::refresh
\* does not: a refresh() may run between any two steps of a grep
\* if self.index.is_ready() { .. } else the standard grep
grep_is_ready(query, pattern) ==
    /\ q.pc \in {"idle", "done"}
    /\ q' = [IdleQuery EXCEPT !.op = "grep", !.query = query, !.pattern = pattern,
                              !.pc = IF is_ready THEN "lookup" ELSE "walk"]
    /\ UNCHANGED gil
    /\ QueryFrame

Fallback_failing(w, err) == [w EXCEPT !.pc = "done", !.lookup = err, !.ret = err]

\* Err(_) => { fall back to standard grep }
Fallback(w, err) == [w EXCEPT !.pc = "walk", !.lookup = err]

\* self.index.glob_paths(glob_pattern): the readiness check of
\* glob_paths_with_options
grep_glob_paths ==
    /\ q.op = "grep"
    /\ q.pc = "lookup"
    /\ q' = IF is_ready THEN [q EXCEPT !.pc = "lookup_read"]
            ELSE Fallback(q, "IndexNotReady")
    /\ UNCHANGED gil
    /\ QueryFrame

\* glob_paths_with_options: all_files.read(), compile_glob, the filter
grep_glob_paths_read ==
    /\ q.op = "grep"
    /\ q.pc = "lookup_read"
    /\ q' = IF GlobCompiles(q.pattern)
            THEN [q EXCEPT !.pc = "files", !.lookup = "Ok",
                           !.res = GlobPathsResult(q.pattern, TRUE)]
            ELSE Fallback(q, "Glob")
    /\ UNCHANGED gil
    /\ QueryFrame

\* the files a walk of the tree as it is now collects: honoured by the ignore
\* rules, not directories, matching the glob, not binary
WalkSelected(pattern) ==
    {p \in Honoured(disk) : disk[p] = "text" /\ GlobMatch(pattern, p)}

\* searcher.grep_with_files(query, files, options), or searcher.grep(query,
\* glob_pattern, options) with its own walk; the search itself is Part III's
grep_search ==
    /\ q.op = "grep"
    /\ q.pc \in {"files", "walk"}
    /\ IF ~RegexCompiles(q.query)
       THEN q' = [q EXCEPT !.pc = "done", !.ret = "Regex"]
       ELSE IF q.pc = "files"
       THEN q' = [q EXCEPT !.pc = "done", !.ret = "Ok", !.via = "index"]
       ELSE IF ~GlobCompiles(q.pattern)
       THEN q' = [q EXCEPT !.pc = "done", !.ret = "Glob", !.via = "walk"]
       ELSE \E files \in Orders(WalkSelected(q.pattern)) :
               q' = [q EXCEPT !.pc = "done", !.ret = "Ok", !.via = "walk",
                              !.res = files]
    /\ UNCHANGED gil
    /\ QueryFrame

(***************************************************************************)
(* Part IV.  The Debouncer called directly, the glob cache and             *)
(* pending_changes()                                                       *)
(***************************************************************************)
(*----------------------- Debouncer, called directly ---------------------*)
\* the paths the direct calls of add_event draw from
DebouncePaths == {"d/f", "t"}
\* the ChangeKinds an event for path p can have
ChangeKinds(p) == {Created, Modified, Deleted} \cup {Renamed(p, r) : r \in DebouncePaths \ {p}}

\* history of the direct calls: the last call (op, path, kind), Instant::now()
\* in it, the pending map it found, the Vec it returned, and per path
\*   last:      the time of the last add_event call (-1: none)
\*   created:   the time of the add_event(Created) call after which only
\*              Modified events were added and nothing was returned (-1: none);
\*              created0 is its value as the last call found it
\*   collapsed: the paths for which the last add_event was a Deleted that met
\*              a pending Created
IdleDebouncer == [op |-> "none", path |-> "-", kind |-> Deleted, t |-> 0,
                  pre |-> [p \in Paths |-> NoPending], out |-> <<>>,
                  last |-> [p \in Paths |-> -1],
                  created |-> [p \in Paths |-> -1], created0 |-> [p \in Paths |-> -1],
                  collapsed |-> {}]

\* the history after a call that returned events for the paths S
Returns(d, S) ==
    [d EXCEPT !.created0 = d.created,
              !.created = [p \in Paths |-> IF p \in S THEN -1 ELSE d.created[p]]]

DebouncerFrame == UNCHANGED <<gil, dir_exists, names, data, th, rd, file0, searchvars, gc, pch, rb, pe,
                              disk, changes_left, now, event_rx, stop_flag, entries,
                              dir_children, all_files, is_ready, is_building, bth,
                              refresh_left, wl, q, tree_changed>>

\* debouncer.add_event(path, kind)
call_add_event(path, kind) ==
    /\ pending' = add_event(pending, path, kind, now)
    /\ db' = [db EXCEPT !.op = "add_event", !.path = path, !.kind = kind, !.t = now,
                        !.pre = pending, !.out = <<>>, !.last[path] = now,
                        !.created0 = db.created,
                        !.created[path] = IF kind = Created THEN now
                                          ELSE IF kind = Modified THEN @ ELSE -1,
                        !.collapsed = IF /\ pending[path].some
                                         /\ pending[path].kind = Created
                                         /\ kind = Deleted
                                      THEN @ \cup {path} ELSE @ \ {path}]
    /\ DebouncerFrame

\* the paths with a pending entry
HasPending(pend) == {p \in Paths : pend[p].some}

\* the FileChanges made of the entries of the paths s[1], s[2], ...
Changes(pend, s) == [i \in 1..Len(s) |-> FileChange(s[i], pend[s[i]].kind, pend[s[i]].ts)]

\* self.pending.remove(&path) for every path of S
RemoveAll(pend, S) == [p \in Paths |-> IF p \in S THEN NoPending ELSE pend[p]]

\* debouncer.flush(): the loop over pending.iter(), in the map's order
call_flush ==
    /\ \E s \in Orders(FlushReady(pending, now)) :
          db' = [Returns(db, Range(s)) EXCEPT !.op = "flush", !.path = "-",
                                              !.kind = Deleted, !.t = now,
                                              !.pre = pending, !.out = Changes(pending, s)]
    /\ pending' = RemoveAll(pending, FlushReady(pending, now))
    /\ DebouncerFrame

\* debouncer.flush_all(): pending.drain(), in the map's order
call_flush_all ==
    /\ \E s \in Orders(HasPending(pending)) :
          db' = [Returns(db, Range(s)) EXCEPT !.op = "flush_all", !.path = "-",
                                              !.kind = Deleted, !.t = now,
                                              !.pre = pending, !.out = Changes(pending, s)]
    /\ pending' = [p \in Paths |-> NoPending]
    /\ DebouncerFrame

(*------------------------------ the glob cache ---------------------------*)
\* const GLOB_CACHE_SIZE
GLOB_CACHE_SIZE == 128
\* the threads that call list / glob / glob_paths on one FileIndex
GlobThreads == {"g1", "g2"}
\* pattern strings, numbered; pattern 0 is one that Glob::new rejects
GlobPatterns == {0, 1, GLOB_CACHE_SIZE + 1, GLOB_CACHE_SIZE + 2}

IdleGlobThread == [pc |-> "idle", pattern |-> 0, key |-> 0, ret |-> "none"]
IdleGlobCache == [cache |-> {}, th |-> [t \in GlobThreads |-> IdleGlobThread]]

GlobFrame == UNCHANGED <<gil, dir_exists, names, data, th, rd, file0, searchvars, db, pch, rb, pe,
                         idxvars>>

\* compile_glob: glob_cache.get(pattern); on a miss Glob::new(pattern)
compile_glob(t, pattern) ==
    /\ gc.th[t].pc = "idle"
    /\ gc' = [gc EXCEPT !.th[t] =
                 IF pattern \in gc.cache
                 THEN [IdleGlobThread EXCEPT !.pc = "done", !.pattern = pattern, !.ret = "Ok"]
                 ELSE IF pattern = 0
                 THEN [IdleGlobThread EXCEPT !.pc = "done", !.pattern = pattern,
                                             !.ret = "Glob"]
                 ELSE [IdleGlobThread EXCEPT !.pc = "len", !.pattern = pattern]]
    /\ GlobFrame

\* GlobCache::insert: if self.cache.len() >= self.capacity
insert_len(t) ==
    /\ gc.th[t].pc = "len"
    /\ gc' = [gc EXCEPT !.th[t].pc = IF Cardinality(gc.cache) >= GLOB_CACHE_SIZE
                                     THEN "iter" ELSE "insert"]
    /\ GlobFrame

\* GlobCache::insert: if let Some(entry) = self.cache.iter().next(), any entry
insert_iter(t) ==
    /\ gc.th[t].pc = "iter"
    /\ IF gc.cache = {}
       THEN gc' = [gc EXCEPT !.th[t].pc = "insert"]
       ELSE \E k \in gc.cache : gc' = [gc EXCEPT !.th[t].pc = "remove", !.th[t].key = k]
    /\ GlobFrame

\* GlobCache::insert: self.cache.remove(&key)
insert_remove(t) ==
    /\ gc.th[t].pc = "remove"
    /\ gc' = [gc EXCEPT !.cache = @ \ {gc.th[t].key}, !.th[t].pc = "insert"]
    /\ GlobFrame

\* GlobCache::insert: self.cache.insert(pattern, matcher); compile_glob returns
insert_store(t) ==
    /\ gc.th[t].pc = "insert"
    /\ gc' = [gc EXCEPT !.cache = @ \cup {gc.th[t].pattern}, !.th[t].pc = "done",
                        !.th[t].ret = "Ok"]
    /\ GlobFrame

(*---------------------------- pending_changes() --------------------------*)
\* calls of pending_changes()
MaxPendingCalls == 1

\* the caller of pending_changes(): calls left, events.len() of the last (-1: none)
IdlePending == [calls_left |-> 0, ret |-> -1]

\* FileSystem::pending_changes: watcher.process_events(), events.len(); the
\* events are dropped
pending_changes ==
    /\ pch.calls_left > 0
    /\ wl.pc # "off"
    /\ \E out \in Flushed :
          /\ process_events(out)
          /\ pch' = [calls_left |-> pch.calls_left - 1, ret |-> Len(out)]
    /\ UNCHANGED <<gil, dir_exists, names, data, th, rd, file0, searchvars, db, gc, rb, pe,
                   disk, changes_left, now, stop_flag, entries, dir_children, all_files,
                   is_ready, is_building, bth, refresh_left, wl, q, tree_changed>>

(*------------------------------ read_batch ------------------------------*)
PARALLEL_READ_THRESHOLD == 30

\* the files a batch can name, and what std::fs::read_to_string finds in one:
\* its text, or "none" when the read fails (no such file, not UTF-8)
BatchFiles == {"a", "b"}
BatchContents == {"none", "x", "y"}

\* the threads of the Rayon pool that share one par_iter
BatchWorkers == 2

\* the lengths of the batches: empty, one path, and around the threshold
BatchLens == {0, 1, PARALLEL_READ_THRESHOLD - 1, PARALLEL_READ_THRESHOLD,
              PARALLEL_READ_THRESHOLD + 1}

\* the batches: n paths that name p and r in turn
BatchLists == {[i \in 1..n |-> IF i % 2 = 1 THEN p ELSE r] :
               p \in BatchFiles, r \in BatchFiles, n \in BatchLens}

\* HashMap<String, String>: key -> content, "absent" when the key is not in it
EmptyMap == [f \in BatchFiles |-> "absent"]

\* what one item of the parallel iterator yields
NoItem == [some |-> FALSE, key |-> "-", content |-> "none"]

\* a read_batch call: position, `via` the function that runs, the paths, the
\* files on disk, per worker how many paths of its part it has read, what
\* filter_map yielded per path, the result
IdleBatch == [pc |-> "idle", via |-> "none", paths |-> <<>>,
              files |-> [f \in BatchFiles |-> "none"], i |-> 1,
              pos |-> [w \in 1..BatchWorkers |-> 0], got |-> <<>>,
              result |-> EmptyMap, ret |-> "none"]

BatchFrame == UNCHANGED <<gil, dir_exists, names, data, th, rd, file0, searchvars, db, gc,
                          pch, pe, idxvars>>

\* std::fs::read_to_string(path)
read_to_string(files, path) ==
    IF files[path] = "none" THEN [ok |-> FALSE, content |-> "none"]
                            ELSE [ok |-> TRUE, content |-> files[path]]

\* read_batch_serial: HashMap::with_capacity
read_batch_serial(paths) ==
    /\ rb.pc = "idle"
    /\ rb' = [rb EXCEPT !.pc = "serial", !.via = "serial", !.paths = paths, !.i = 1]
    /\ BatchFrame

\* read_batch_serial: one turn of `for path in paths`; path.display() of a
\* path made from a String is that String
read_batch_serial_loop ==
    /\ rb.pc = "serial"
    /\ IF rb.i > Len(rb.paths)
       THEN rb' = [rb EXCEPT !.pc = "done", !.ret = "Ok"]
       ELSE LET r == read_to_string(rb.files, rb.paths[rb.i])
            IN rb' = [rb EXCEPT !.i = @ + 1,
                                !.result = IF r.ok THEN [@ EXCEPT ![rb.paths[rb.i]] = r.content]
                                                   ELSE @]
    /\ BatchFrame

\* the part of the slice that worker w reads: par_iter splits it evenly
PartOf(paths, w) ==
    ((((w - 1) * Len(paths)) \div BatchWorkers) + 1)..((w * Len(paths)) \div BatchWorkers)

\* read_batch_parallel: paths.par_iter()
read_batch_parallel(paths) ==
    /\ rb.pc = "idle"
    /\ rb' = [rb EXCEPT !.pc = "parallel", !.via = "parallel", !.paths = paths,
                        !.got = [i \in 1..Len(paths) |-> NoItem]]
    /\ BatchFrame

filter_map_keep(files, path) ==
    [some |-> TRUE, key |-> path, content |-> read_to_string(files, path).content]

\* the closure of filter_map: Some((path, content)) or None
filter_map(files, path) ==
    IF read_to_string(files, path).ok
    THEN [some |-> TRUE, key |-> path, content |-> read_to_string(files, path).content]
    ELSE NoItem

\* worker w reads the next path of its part
read_batch_parallel_item(w) ==
    /\ rb.pc = "parallel"
    /\ rb.pos[w] < Cardinality(PartOf(rb.paths, w))
    /\ LET i == (((w - 1) * Len(rb.paths)) \div BatchWorkers) + rb.pos[w] + 1
       IN rb' = [rb EXCEPT !.pos[w] = @ + 1,
                           !.got[i] = filter_map(rb.files, rb.paths[i])]
    /\ BatchFrame

\* collect::<HashMap<String, String>>(): the items in the order of the slice
RECURSIVE Collect(_, _)
Collect(map, items) ==
    IF items = <<>> THEN map
    ELSE Collect(IF items[1].some THEN [map EXCEPT ![items[1].key] = items[1].content]
                                  ELSE map,
                 Tail(items))

\* read_batch_parallel: every worker has read its part
read_batch_parallel_collect ==
    /\ rb.pc = "parallel"
    /\ \A w \in 1..BatchWorkers : rb.pos[w] = Cardinality(PartOf(rb.paths, w))
    /\ rb' = [rb EXCEPT !.pc = "done", !.result = Collect(EmptyMap, rb.got), !.ret = "Ok"]
    /\ BatchFrame

\* io::read_batch: the dispatch on paths.len()
read_batch(paths) ==
    IF Len(paths) < PARALLEL_READ_THRESHOLD THEN read_batch_serial(paths)
                                            ELSE read_batch_parallel(paths)

(*--------------------- process_events, called directly ------------------*)
\* the raw events notify can deliver: the kinds process_events maps, and
\* kinds it has no arm for
RawKinds == {"Create", "ModifyData", "RenameBoth", "RenameFrom", "RenameTo", "Remove",
             "CreateOther", "Access"}

\* raw events waiting in the channel when process_events is called directly
MaxRaw == 1

\* an event carries no path, one path or two
RawEvents == {RawEvent(kind, paths) :
              kind \in RawKinds,
              paths \in {<<>>} \cup {<<p>> : p \in DebouncePaths}
                        \cup {<<p, r>> : p \in DebouncePaths, r \in DebouncePaths}}

IdleEvents == [called |-> FALSE, raw |-> <<>>]

EventsFrame == UNCHANGED <<gil, dir_exists, names, data, th, rd, file0, searchvars, db, gc,
                           pch, rb, disk, changes_left, stop_flag, entries, dir_children,
                           all_files, is_ready, is_building, bth, refresh_left, wl, q,
                           tree_changed>>

\* the notify callback delivers any event: tx.send(res)
notify(ev) ==
    /\ Len(event_rx) < MaxRaw
    /\ Send(<<ev>>)
    /\ UNCHANGED <<now, pending, pe>>
    /\ EventsFrame

\* watcher.process_events(), the returned Vec dropped
call_process_events ==
    /\ \E out \in Flushed : process_events(out)
    /\ pe' = [called |-> TRUE, raw |-> event_rx]
    /\ UNCHANGED now
    /\ EventsFrame

\* nothing is called beside the index
AuxIdle ==
    /\ db = IdleDebouncer
    /\ gc = IdleGlobCache
    /\ pch = IdlePending
    /\ rb = IdleBatch
    /\ pe = IdleEvents

(*---------------------------- specifications ----------------------------*)
\* the index of a facade over an empty tree that nothing acts on
IndexIdle ==
    /\ disk = [p \in Paths |-> "none"]
    /\ changes_left = 0
    /\ now = 0
    /\ event_rx = <<>>
    /\ pending = [p \in Paths |-> NoPending]
    /\ stop_flag = FALSE
    /\ entries = [p \in Paths |-> NoEntry]
    /\ dir_children = [k \in DirKeys |-> NoChildren]
    /\ all_files = <<>>
    /\ is_ready = FALSE
    /\ is_building = FALSE
    /\ bth = [t \in BuildThreads |-> IdleBuild]
    /\ refresh_left = 0
    /\ wl = IdleWatcher
    /\ q = IdleQuery
    /\ tree_changed = FALSE

\* no thread calls into the byte-level file operations or the Searcher
NoFileCalls ==
    /\ gil = "free"
    /\ dir_exists = TRUE
    /\ names = [nm \in FileNames |-> 0]
    /\ data = [i \in Inodes |-> <<>>]
    /\ th = [t \in IoThreads |-> OffThread]
    /\ rd = [pc |-> "idle", fd |-> 0, obs |-> NoFile, during |-> FALSE]
    /\ file0 = NoFile
    /\ SearchIdle

FilesIdle ==
    /\ NoFileCalls
    /\ AuxIdle

InitFiles ==
    /\ IndexIdle
    /\ gil = "free"
    /\ dir_exists \in BOOLEAN
    /\ \E f \in {NoFile} \cup {File(c) : c \in SeqsUpTo(MaxContent)} :
          /\ (f.ex => dir_exists)
          /\ names = [nm \in FileNames |-> IF nm = Target /\ f.ex THEN 1 ELSE 0]
          /\ data = [i \in Inodes |-> IF i = 1 THEN f.bytes ELSE <<>>]
          /\ file0 = f
    /\ rd = [pc |-> "idle", fd |-> 0, obs |-> NoFile, during |-> FALSE]
    /\ SearchIdle
    /\ AuxIdle

\* one write_file call, with a reader beside it
InitAtomic ==
    /\ InitFiles
    /\ th = [t \in IoThreads |-> IF t = "t1" THEN IdleThread ELSE OffThread]

NextAtomic ==
    \/ \E t \in IoThreads, c \in SeqsUpTo(MaxContent) : write_file(t, c)
    \/ \E t \in IoThreads : allow_threads(t)
    \/ \E t \in IoThreads : atomic_write_dir(t)
    \/ \E t \in IoThreads : atomic_write_tmp(t)
    \/ \E t \in IoThreads : atomic_write_write(t)
    \/ \E t \in IoThreads : atomic_write_sync(t)
    \/ \E t \in IoThreads : atomic_write_persist(t)
    \/ \E t \in IoThreads : call_return(t)
    \/ reader_open
    \/ reader_read

SpecAtomic == InitAtomic /\ [][NextAtomic]_vars

\* one edit_replace call
InitEdit ==
    /\ InitFiles
    /\ th = [t \in IoThreads |-> IF t = "t1" THEN IdleThread ELSE OffThread]

NextEdit ==
    \/ \E t \in IoThreads, old \in SeqsUpTo(MaxPat), new \in SeqsUpTo(MaxNew),
          strict \in BOOLEAN : edit_replace(t, old, new, strict)
    \/ \E t \in IoThreads : allow_threads(t)
    \/ \E t \in IoThreads : edit_replace_read(t)
    \/ \E t \in IoThreads : atomic_write_dir(t)
    \/ \E t \in IoThreads : atomic_write_tmp(t)
    \/ \E t \in IoThreads : atomic_write_write(t)
    \/ \E t \in IoThreads : atomic_write_sync(t)
    \/ \E t \in IoThreads : atomic_write_persist(t)
    \/ \E t \in IoThreads : call_return(t)

SpecEdit == InitEdit /\ [][NextEdit]_vars

\* two threads of one process, each with one strict edit_replace of a text that
\* is unique in the file, the two texts different and still unique once the
\* other has been replaced (run one after the other, in either order, both
\* calls return true)
InitEditConc ==
    /\ InitFiles
    /\ file0.ex
    /\ \E o1, o2 \in SeqsUpTo(MaxPat), n1, n2 \in SeqsUpTo(MaxNew) :
          /\ o1 # o2
          /\ matches_count(file0.bytes, o1) = 1
          /\ matches_count(file0.bytes, o2) = 1
          /\ matches_count(replace(file0.bytes, o1, n1), o2) = 1
          /\ matches_count(replace(file0.bytes, o2, n2), o1) = 1
          /\ th = [t \in IoThreads |->
                     [IdleThread EXCEPT !.old = IF t = "t1" THEN o1 ELSE o2,
                                        !.new = IF t = "t1" THEN n1 ELSE n2,
                                        !.strict = TRUE]]

NextEditConc ==
    \/ \E t \in IoThreads :
          edit_replace(t, th[t].old, th[t].new, th[t].strict)
    \/ \E t \in IoThreads : allow_threads(t)
    \/ \E t \in IoThreads : edit_replace_read(t)
    \/ \E t \in IoThreads : atomic_write_dir(t)
    \/ \E t \in IoThreads : atomic_write_tmp(t)
    \/ \E t \in IoThreads : atomic_write_write(t)
    \/ \E t \in IoThreads : atomic_write_sync(t)
    \/ \E t \in IoThreads : atomic_write_persist(t)
    \/ \E t \in IoThreads : call_return(t)

SpecEditConc == InitEditConc /\ [][NextEditConc]_vars

\* what build() leaves over a tree that does not change while it runs (the
\* walker's order taken to be PathOrder)
FreshEntries(dk) == [p \in Paths |-> IF p \in Honoured(dk) THEN Metadata(dk[p]) ELSE NoEntry]
FreshFiles(dk) == SelectSeq(PathOrder, LAMBDA p : p \in Honoured(dk) /\ dk[p] # "dir")
FreshChildren(dk) ==
    [k \in DirKeys |->
        LET kids == SelectSeq(PathOrder, LAMBDA p : p \in Honoured(dk) /\ Parent(p) = k)
        IN IF kids = <<>> THEN NoChildren ELSE [some |-> TRUE, kids |-> kids]]

\* FileSystem::new(root, auto_watch) over any tree: FileIndex::new and the
\* background thread about to call build()
InitFacade ==
    /\ FilesIdle
    /\ disk \in Trees
    /\ now = 0
    /\ event_rx = <<>>
    /\ pending = [p \in Paths |-> NoPending]
    /\ stop_flag = FALSE
    /\ entries = [p \in Paths |-> NoEntry]
    /\ dir_children = [k \in DirKeys |-> NoChildren]
    /\ all_files = <<>>
    /\ is_ready = FALSE
    /\ is_building = FALSE
    /\ bth = [t \in BuildThreads |-> IF t = "bg" THEN [IdleBuild EXCEPT !.pc = "cas"]
                                                  ELSE IdleBuild]
    /\ q = IdleQuery
    /\ tree_changed = FALSE

\* builds, refresh() and queries over a tree at rest, without a watcher
\* (auto_watch = false)
InitQuery ==
    /\ InitFacade
    /\ changes_left = 0
    /\ refresh_left = MaxRefresh
    /\ wl = [IdleWatcher EXCEPT !.pc = "off"]

NextQuery ==
    \/ \E t \in BuildThreads : refresh(t)
    \/ \E t \in BuildThreads : build_cas(t)
    \/ \E t \in BuildThreads : build_clear_entries(t)
    \/ \E t \in BuildThreads : build_clear_children(t)
    \/ \E t \in BuildThreads : build_list(t)
    \/ \E t \in BuildThreads : build_visit(t)
    \/ \E t \in BuildThreads : build_replace(t)
    \/ \E t \in BuildThreads : build_set_ready(t)
    \/ \E t \in BuildThreads : build_done(t)
    \/ \E pattern \in Patterns, only_files \in BOOLEAN :
          list(pattern, only_files)
    \/ \E pattern \in Patterns, skip_binary \in BOOLEAN :
          glob_paths_with_options(pattern, skip_binary)
    \/ query_read
    \/ \E query \in Queries, pattern \in SearchPatterns : grep_is_ready(query, pattern)
    \/ grep_glob_paths
    \/ grep_glob_paths_read
    \/ grep_search

SpecQuery == InitQuery /\ [][NextQuery]_vars

\* the watcher loop's steps
WatcherNext ==
    \/ watcher_check
    \/ watcher_process
    \/ watcher_wake
    \/ add_path_stat
    \/ add_path_entries
    \/ add_path_children
    \/ add_path_files
    \/ update_path_stat
    \/ update_path_entries
    \/ remove_path_entries
    \/ remove_path_children
    \/ remove_path_files

\* the tree's changes
EnvNext ==
    \/ env_create
    \/ env_modify
    \/ env_delete
    \/ env_rename

\* the background build beside the watcher loop, over a tree that changes
InitBuild ==
    /\ InitFacade
    /\ changes_left = MaxBuildChanges
    /\ refresh_left = 0
    /\ wl = IdleWatcher

NextBuild ==
    \/ EnvNext
    \/ Tick
    \/ \E t \in BuildThreads : build_cas(t)
    \/ \E t \in BuildThreads : build_clear_entries(t)
    \/ \E t \in BuildThreads : build_clear_children(t)
    \/ \E t \in BuildThreads : build_list(t)
    \/ \E t \in BuildThreads : build_visit(t)
    \/ \E t \in BuildThreads : build_replace(t)
    \/ \E t \in BuildThreads : build_set_ready(t)
    \/ \E t \in BuildThreads : build_done(t)
    \/ WatcherNext

SpecBuild == InitBuild /\ [][NextBuild]_vars

\* the watcher loop over an index that the first build has completed
InitWatch ==
    /\ FilesIdle
    /\ disk \in Trees
    /\ changes_left = MaxChanges
    /\ now = 0
    /\ event_rx = <<>>
    /\ pending = [p \in Paths |-> NoPending]
    /\ stop_flag = FALSE
    /\ entries = FreshEntries(disk)
    /\ dir_children = FreshChildren(disk)
    /\ all_files = FreshFiles(disk)
    /\ is_ready = TRUE
    /\ is_building = FALSE
    /\ bth = [t \in BuildThreads |-> IF t = "bg" THEN [IdleBuild EXCEPT !.pc = "done",
                                                                        !.built = TRUE]
                                                  ELSE IdleBuild]
    /\ refresh_left = 0
    /\ wl = IdleWatcher
    /\ q = IdleQuery
    /\ tree_changed = FALSE

NextWatch ==
    \/ EnvNext
    \/ Tick
    \/ WatcherNext
    \/ close

SpecWatch == InitWatch /\ [][NextWatch]_vars

\* refresh() and the build it runs beside the watcher loop and close(), over
\* an index that the first build has completed and a tree that changes
InitReady ==
    /\ FilesIdle
    /\ disk \in Trees
    /\ changes_left = MaxBuildChanges
    /\ now = 0
    /\ event_rx = <<>>
    /\ pending = [p \in Paths |-> NoPending]
    /\ stop_flag = FALSE
    /\ entries = FreshEntries(disk)
    /\ dir_children = FreshChildren(disk)
    /\ all_files = FreshFiles(disk)
    /\ is_ready = TRUE
    /\ is_building = FALSE
    /\ bth = [t \in BuildThreads |-> IF t = "bg" THEN [IdleBuild EXCEPT !.pc = "done",
                                                                        !.built = TRUE]
                                                  ELSE IdleBuild]
    /\ refresh_left = MaxRefresh
    /\ wl = IdleWatcher
    /\ q = IdleQuery
    /\ tree_changed = FALSE

NextReady ==
    \/ EnvNext
    \/ Tick
    \/ WatcherNext
    \/ close
    \/ \E t \in BuildThreads : refresh(t)
    \/ \E t \in BuildThreads : build_cas(t)
    \/ \E t \in BuildThreads : build_clear_entries(t)
    \/ \E t \in BuildThreads : build_clear_children(t)
    \/ \E t \in BuildThreads : build_list(t)
    \/ \E t \in BuildThreads : build_visit(t)
    \/ \E t \in BuildThreads : build_replace(t)
    \/ \E t \in BuildThreads : build_set_ready(t)
    \/ \E t \in BuildThreads : build_done(t)

SpecReady == InitReady /\ [][NextReady]_vars

\* Searcher calls over any tree of files
InitGrep ==
    /\ IndexIdle
    /\ gil = "free"
    /\ dir_exists = TRUE
    /\ names = [nm \in FileNames |-> 0]
    /\ data = [i \in Inodes |-> <<>>]
    /\ th = [t \in IoThreads |-> OffThread]
    /\ rd = [pc |-> "idle", fd |-> 0, obs |-> NoFile, during |-> FALSE]
    /\ file0 = NoFile
    /\ sfiles \in [SearchPaths -> SFiles]
    /\ gr = IdleGrep
    /\ AuxIdle

NextGrep ==
    \/ \E query \in Queries, pattern \in SearchPatterns, case_sensitive \in BOOLEAN,
          max_results \in 0..MaxResults :
          grep(query, pattern, case_sensitive, max_results)
    \/ \E query \in Queries, files \in FileLists, case_sensitive \in BOOLEAN,
          max_results \in 0..MaxResults :
          grep_with_files(query, files, case_sensitive, max_results)
    \/ \E i \in 1..Len(gr.files) : grep_task_cancelled(i)
    \/ \E i \in 1..Len(gr.files) : grep_task_limit(i)
    \/ \E i \in 1..Len(gr.files) : search_file_cancelled(i)
    \/ \E i \in 1..Len(gr.files) : search_file_read(i)
    \/ \E i \in 1..Len(gr.files) : search_file_next(i)
    \/ \E i \in 1..Len(gr.files) : search_file_match(i)
    \/ \E i \in 1..Len(gr.files) : search_file_update(i)
    \/ \E i \in 1..Len(gr.files) : search_file_cancel(i)
    \/ grep_collect

SpecGrep == InitGrep /\ [][NextGrep]_vars

\* a Debouncer that add_event, flush and flush_all are called on directly,
\* as time passes
InitDebounce ==
    /\ NoFileCalls
    /\ IndexIdle
    /\ db = IdleDebouncer
    /\ gc = IdleGlobCache
    /\ pch = IdlePending
    /\ rb = IdleBatch
    /\ pe = IdleEvents

NextDebounce ==
    \/ \E path \in DebouncePaths : \E kind \in ChangeKinds(path) : call_add_event(path, kind)
    \/ call_flush
    \/ call_flush_all
    \/ Tick

SpecDebounce == InitDebounce /\ [][NextDebounce]_vars

\* two threads that call compile_glob on a FileIndex whose cache earlier
\* calls, one after the other, have filled with the patterns 1..n
InitGlob ==
    /\ NoFileCalls
    /\ IndexIdle
    /\ db = IdleDebouncer
    /\ pch = IdlePending
    /\ rb = IdleBatch
    /\ pe = IdleEvents
    /\ \E n \in {0, GLOB_CACHE_SIZE - 1, GLOB_CACHE_SIZE} :
          gc = [IdleGlobCache EXCEPT !.cache = 1..n]

NextGlob ==
    \/ \E t \in GlobThreads, pattern \in GlobPatterns : compile_glob(t, pattern)
    \/ \E t \in GlobThreads : insert_len(t)
    \/ \E t \in GlobThreads : insert_iter(t)
    \/ \E t \in GlobThreads : insert_remove(t)
    \/ \E t \in GlobThreads : insert_store(t)

SpecGlob == InitGlob /\ [][NextGlob]_vars

\* one read_batch call, or one direct call of either function it dispatches
\* to, over files that do or do not read
InitBatch ==
    /\ NoFileCalls
    /\ IndexIdle
    /\ db = IdleDebouncer
    /\ gc = IdleGlobCache
    /\ pch = IdlePending
    /\ pe = IdleEvents
    /\ \E files \in [BatchFiles -> BatchContents] : rb = [IdleBatch EXCEPT !.files = files]

NextBatch ==
    \/ \E paths \in BatchLists : read_batch(paths)
    \/ \E paths \in BatchLists : read_batch_serial(paths)
    \/ \E paths \in BatchLists : read_batch_parallel(paths)
    \/ read_batch_serial_loop
    \/ \E w \in 1..BatchWorkers : read_batch_parallel_item(w)
    \/ read_batch_parallel_collect

SpecBatch == InitBatch /\ [][NextBatch]_vars

\* a FileWatcher whose process_events is called directly, as notify delivers
\* raw events of every kind and time passes
InitEvents ==
    /\ NoFileCalls
    /\ IndexIdle
    /\ AuxIdle

NextEvents ==
    \/ \E ev \in RawEvents : notify(ev)
    \/ call_process_events
    \/ Tick

SpecEvents == InitEvents /\ [][NextEvents]_vars

\* changes to the tree that one debounce window can hold
MaxMergeChanges == 3

\* the watcher loop over the built index of a tree that holds the file d,
\* while paths are created, written and deleted
InitMerge ==
    /\ FilesIdle
    /\ disk = [p \in Paths |-> IF p = "d" THEN "text" ELSE "none"]
    /\ changes_left = MaxMergeChanges
    /\ now = 0
    /\ event_rx = <<>>
    /\ pending = [p \in Paths |-> NoPending]
    /\ stop_flag = FALSE
    /\ entries = FreshEntries(disk)
    /\ dir_children = FreshChildren(disk)
    /\ all_files = FreshFiles(disk)
    /\ is_ready = TRUE
    /\ is_building = FALSE
    /\ bth = [t \in BuildThreads |-> IF t = "bg" THEN [IdleBuild EXCEPT !.pc = "done",
                                                                        !.built = TRUE]
                                                  ELSE IdleBuild]
    /\ refresh_left = 0
    /\ wl = IdleWatcher
    /\ q = IdleQuery
    /\ tree_changed = FALSE

NextMerge ==
    \/ env_create
    \/ env_modify
    \/ env_delete
    \/ Tick
    \/ WatcherNext

SpecMerge == InitMerge /\ [][NextMerge]_vars

\* the watcher loop, over an index that the first build has completed, beside
\* a caller of pending_changes() and close(), while files are created and
\* written under root
InitPending ==
    /\ NoFileCalls
    /\ db = IdleDebouncer
    /\ gc = IdleGlobCache
    /\ pch = [IdlePending EXCEPT !.calls_left = MaxPendingCalls]
    /\ rb = IdleBatch
    /\ pe = IdleEvents
    /\ disk \in Trees
    /\ changes_left = MaxChanges
    /\ now = 0
    /\ event_rx = <<>>
    /\ pending = [p \in Paths |-> NoPending]
    /\ stop_flag = FALSE
    /\ entries = FreshEntries(disk)
    /\ dir_children = FreshChildren(disk)
    /\ all_files = FreshFiles(disk)
    /\ is_ready = TRUE
    /\ is_building = FALSE
    /\ bth = [t \in BuildThreads |-> IF t = "bg" THEN [IdleBuild EXCEPT !.pc = "done",
                                                                        !.built = TRUE]
                                                  ELSE IdleBuild]
    /\ refresh_left = 0
    /\ wl = IdleWatcher
    /\ q = IdleQuery
    /\ tree_changed = FALSE

NextPending ==
    \/ env_create
    \/ env_modify
    \/ Tick
    \/ watcher_check
    \/ watcher_process
    \/ watcher_wake
    \/ add_path_stat
    \/ add_path_entries
    \/ add_path_children
    \/ add_path_files
    \/ update_path_stat
    \/ update_path_entries
    \/ pending_changes
    \/ close

SpecPending == InitPending /\ [][NextPending]_vars

(***************************************************************************)
(* Properties of the index, its queries and the watcher loop               *)
(***************************************************************************)
IndexedPaths == {p \in Paths : entries[p].some}
IndexedFiles == {p \in Paths : entries[p].some /\ ~entries[p].is_dir}

\* the step on which a build() that ran the walk returns
BuildCompletes(t) == bth[t].pc = "clear_building" /\ bth'[t].pc = "done"

\* the watcher loop is not inside add_path, update_path or remove_path
WatcherBetweenCalls == wl.pc \in {"check", "process", "sleep", "exit", "off"}

\* C1: when a build() completes successfully, including one that ran while
\* the watcher loop was calling add_path / update_path / remove_path (the
\* calls having returned), the paths of the entries with is_dir = false are
\* exactly the set of all_files, and, no path having appeared or vanished
\* under the build, entries holds exactly the non-root descendants of root
\* that the ignore rules honour.
C1_BuildLeavesExactIndex ==
    [][\A t \in BuildThreads :
          (BuildCompletes(t) /\ WatcherBetweenCalls') =>
              /\ IndexedFiles' = Range(all_files')
              /\ ~tree_changed' => IndexedPaths' = Honoured(disk')]_vars

\* C2: is_ready gates the queries so that, for any interleaving of build(),
\* refresh() and queries, no query returns a result computed from a partially
\* populated index: a query that returned Ok did not read entries while a
\* build had cleared them and not yet put back every path of the tree.
C2_QueriesNeverSeePartialIndex ==
    (q.pc = "done" /\ q.ret = "Ok") => ~q.partial

\* every change made so far has been received, debounced, flushed and applied
Quiescent ==
    /\ event_rx = <<>>
    /\ \A p \in Paths : ~pending[p].some
    /\ wl.pc \in {"check", "process", "sleep"}
    /\ wl.events = <<>>
    /\ \A t \in BuildThreads : bth[t].pc \in {"idle", "done"}

\* C3: with auto_watch on and the facade open, once the changes stop and
\* every pending debounced change has been flushed and applied, the index
\* (entries and all_files) equals the index a fresh build() would produce
\* over the tree as it is then, for every sequence of creates, modifies,
\* deletes and renames.
C3_WatcherReachesFreshIndex ==
    (Quiescent /\ ~stop_flag /\ is_ready) =>
        /\ entries = FreshEntries(disk)
        /\ Range(all_files) = Range(FreshFiles(disk))
        /\ Len(all_files) = Cardinality(Range(all_files))

(***************************************************************************)
(* Properties of the atomic writer and of edit_replace                     *)
(***************************************************************************)
Returned(t) == th[t].pc \in {"leave", "returned"}

\* C4: if atomic_write fails at any step (directory creation, temp creation,
\* write, fsync, rename), the file at path afterwards has exactly its pre-call
\* content, or is still absent if it did not exist: the temporary file is
\* never promoted onto path.
C4_FailedWriteLeavesFile ==
    \A t \in IoThreads :
        (th[t].op = "write" /\ Returned(t) /\ th[t].ret.tag = "Io")
            => Lookup(Target) = th[t].pre

\* a call over an existing file that wrote all of different bytes to the
\* temporary file and then failed (at fsync or at the rename)
C4_Witness ==
    \E t \in IoThreads :
        /\ th[t].op = "write" /\ Returned(t) /\ th[t].ret.tag = "Io"
        /\ th[t].pre.ex /\ th[t].content # th[t].pre.bytes
        /\ th[t].written = Len(th[t].content) /\ th[t].written > 0

\* C5: whenever atomic_write / write_file returns success, a read of the path
\* yields exactly the written bytes, whether the file existed before or not
\* and whether or not the parent directory existed.
C5_SuccessfulWriteIsRead ==
    \A t \in IoThreads :
        (th[t].op = "write" /\ Returned(t) /\ th[t].ret.tag = "ok")
            => Lookup(Target) = File(th[t].content)

\* a successful write of non-empty bytes into a directory that did not exist
C5_Witness ==
    \E t \in IoThreads :
        /\ th[t].op = "write" /\ Returned(t) /\ th[t].ret.tag = "ok"
        /\ ~th[t].pre_dir /\ Len(th[t].content) > 1

\* C6: at every intermediate step of an atomic_write(path, new) over existing
\* content old, a reader that opens path by name observes the complete old
\* content or the complete new content, never an empty, truncated or mixed
\* file: both what the name refers to during the call and what a reader that
\* opened during the call goes on to read.
C6_ReaderSeesOldOrNew ==
    \A t \in IoThreads :
        (th[t].op = "write" /\ th[t].pre.ex) =>
            /\ InCall(t) => Lookup(Target) \in {th[t].pre, File(th[t].content)}
            /\ (rd.pc = "done" /\ rd.during)
                   => rd.obs \in {th[t].pre, File(th[t].content)}

\* a reader opened the old file during the call and read it after the rename
C6_Witness ==
    \E t \in IoThreads :
        /\ th[t].op = "write" /\ th[t].pre.ex /\ th[t].ret.tag = "ok"
        /\ th[t].content # th[t].pre.bytes
        /\ rd.pc = "done" /\ rd.during /\ rd.obs = th[t].pre
        /\ Lookup(Target) = File(th[t].content)

\* C7: after atomic_write returns, by success or by any error path, no
\* temporary file created by that call remains in the target directory.
C7_NoTempFileRemains ==
    \A t \in IoThreads :
        (th[t].op = "write" /\ Returned(t)) => \A nm \in TmpNames : names[nm] = 0

\* an error return after bytes were written to the temporary file
C7_Witness ==
    \E t \in IoThreads :
        /\ th[t].op = "write" /\ Returned(t) /\ th[t].ret.tag = "Io"
        /\ th[t].written > 0

\* C8: whenever edit_replace returns true, the file's new content equals the
\* pre-call content with every occurrence of old replaced by new (the matches
\* str::replace replaces: leftmost, non-overlapping); and when strict = true,
\* the pre-call content held exactly one such match of old.
C8_EditReplacesEveryOccurrence ==
    \A t \in IoThreads :
        (th[t].op = "edit" /\ Returned(t) /\ th[t].ret.tag = "true") =>
            /\ th[t].pre.ex
            /\ Lookup(Target) = File(replace(th[t].pre.bytes, th[t].old, th[t].new))
            /\ th[t].strict => matches_count(th[t].pre.bytes, th[t].old) = 1

\* a non-strict edit that replaced two matches and changed the file
C8_Witness ==
    \E t \in IoThreads :
        /\ th[t].op = "edit" /\ Returned(t) /\ th[t].ret.tag = "true"
        /\ ~th[t].strict
        /\ matches_count(th[t].pre.bytes, th[t].old) = 2
        /\ Lookup(Target) # th[t].pre

\* C9: whenever edit_replace does not return true the file content is left
\* unchanged, and the outcome is fixed by (strict, count of old): a missing
\* file fails with PathNotFound; once the file has been read, strict with
\* count 0 fails with TextNotFound, strict with count n > 1 fails with
\* TextNotUnique(n), non-strict with count 0 returns false.
C9_EditFailureOutcomes ==
    \A t \in IoThreads :
        (th[t].op = "edit" /\ Returned(t)) =>
            LET n == matches_count(th[t].pre.bytes, th[t].old)
            IN /\ th[t].ret.tag # "true" => Lookup(Target) = th[t].pre
               /\ ~th[t].pre.ex => th[t].ret = Ret("PathNotFound")
               /\ (th[t].seen.ex /\ th[t].strict /\ n = 0) => th[t].ret = Ret("TextNotFound")
               /\ (th[t].seen.ex /\ th[t].strict /\ n > 1) => th[t].ret = TextNotUnique(n)
               /\ (th[t].seen.ex /\ ~th[t].strict /\ n = 0) => th[t].ret = Ret("false")

\* a strict edit refused because the text occurs twice
C9_Witness ==
    \E t \in IoThreads :
        /\ th[t].op = "edit" /\ Returned(t)
        /\ th[t].ret = TextNotUnique(2)
        /\ Lookup(Target) = th[t].pre

\* what one edit_replace makes of content c when it runs alone and its
\* reads and writes succeed
EditAlone(c, t) ==
    LET n == matches_count(c, th[t].old)
    IN IF n = 0 THEN [ret |-> IF th[t].strict THEN Ret("TextNotFound") ELSE Ret("false"),
                      content |-> c]
       ELSE IF n > 1 /\ th[t].strict THEN [ret |-> TextNotUnique(n), content |-> c]
       ELSE [ret |-> Ret("true"), content |-> replace(c, th[t].old, th[t].new)]

\* the two calls took effect as if `first` ran entirely before `second`; a
\* call that ended in an IO error has no effect
AsIfInOrder(first, second) ==
    LET r1 == IF th[first].ret.tag = "Io" THEN [ret |-> th[first].ret, content |-> file0.bytes]
              ELSE EditAlone(file0.bytes, first)
        r2 == IF th[second].ret.tag = "Io" THEN [ret |-> th[second].ret, content |-> r1.content]
              ELSE EditAlone(r1.content, second)
    IN /\ th[first].ret = r1.ret
       /\ th[second].ret = r2.ret
       /\ Lookup(Target) = File(r2.content)

\* C10: when two threads of the same process call edit_replace on the same
\* file concurrently (each replacing a different unique text), the calls take
\* effect as if one ran entirely before the other, so the final content
\* reflects both replacements and no update is lost.
C10_EditsAreSerializable ==
    (Returned("t1") /\ Returned("t2"))
        => (AsIfInOrder("t1", "t2") \/ AsIfInOrder("t2", "t1"))

(***************************************************************************)
(* Properties of the Searcher                                              *)
(***************************************************************************)
GrepReturned == gr.pc = "done" /\ gr.ret = "Ok"

\* the results the tasks of the parallel iterator hold together
Emitted == Collected(gr.task, 1)

\* a line the query matches: it has the query's character, or, the search
\* being case insensitive, that character in the other case
OtherCase(c) == IF c = "a" THEN "A" ELSE IF c = "A" THEN "a" ELSE c
Occurs(c, line) == \E i \in 1..Len(line) : line[i] = c
QueryMatches(line) ==
    Occurs(gr.query, line) \/ (~gr.case_sensitive /\ Occurs(OtherCase(gr.query), line))

Readable(p) == sfiles[p].kind = "text"
MatchingLines(p) ==
    IF Readable(p)
    THEN {n \in 1..Len(lines(sfiles[p].bytes)) : QueryMatches(lines(sfiles[p].bytes)[n])}
    ELSE {}

RECURSIVE MatchesFrom(_)
\* the matching lines of the i-th and later files of the list
MatchesFrom(i) ==
    IF i > Len(gr.files) THEN 0
    ELSE Cardinality(MatchingLines(gr.files[i])) + MatchesFrom(i + 1)
TotalMatches == MatchesFrom(1)

\* C11: for every grep call with max_results = k, k = 0 included, and any
\* interleaving of the parallel per-file tasks, the returned sequence has at
\* most k elements; the tasks together never hold more than k results.
C11_AtMostMaxResults ==
    /\ Len(Emitted) <= gr.max_results
    /\ Len(gr.results) <= gr.max_results

\* two files with more matching lines than max_results = 2, each task having
\* pushed a result
C11_Witness ==
    /\ GrepReturned
    /\ gr.max_results = 2
    /\ Len(gr.files) = 2
    /\ TotalMatches > 2
    /\ \A i \in 1..2 : gr.task[i].out # <<>>
    /\ Len(gr.results) = 2

\* C12: when the files searched hold m matching lines in all and every file is
\* readable, grep with max_results = k returns exactly min(k, m) results under
\* every interleaving of the tasks.
C12_ExactlyMinResults ==
    (GrepReturned /\ \A i \in 1..Len(gr.files) : Readable(gr.files[i]))
        => Len(gr.results) = IF gr.max_results < TotalMatches THEN gr.max_results
                             ELSE TotalMatches

\* the cap cut a search short: the first file has matching lines and its task
\* returned none, the flag is set, and max_results results are returned
C12_Witness ==
    /\ GrepReturned
    /\ Len(gr.files) = 2
    /\ \A i \in 1..2 : Readable(gr.files[i])
    /\ gr.max_results >= 1
    /\ TotalMatches > gr.max_results
    /\ MatchingLines(gr.files[1]) # {}
    /\ gr.task[1].out = <<>>
    /\ gr.cancelled
    /\ Len(gr.results) = gr.max_results

\* C13: every result grep returns comes from a file of the selected set, a
\* file whose path relative to the root satisfies the glob; its content is the
\* line of that file at position line_number, counted from 1, and the query
\* matches that line under the requested case sensitivity: a case sensitive
\* search yields no line that matches the query only in another case.
C13_ResultsAreMatchingLines ==
    GrepReturned =>
        \A n \in 1..Len(gr.results) :
            LET r == gr.results[n]
            IN /\ Contains(gr.files, r.file)
               /\ GlobMatch(gr.pattern, r.file)
               /\ Readable(r.file)
               /\ r.line_number \in 1..Len(lines(sfiles[r.file].bytes))
               /\ lines(sfiles[r.file].bytes)[r.line_number] = r.content
               /\ QueryMatches(r.content)

\* a case sensitive search under a glob that leaves out a file with matching
\* lines returned the second line of the other file, and not its first
C13_Witness ==
    /\ GrepReturned
    /\ gr.pattern = "d/*"
    /\ gr.query = "A"
    /\ gr.case_sensitive
    /\ MatchingLines("g") # {}
    /\ gr.files = <<"d/f">>
    /\ Len(gr.results) = 1
    /\ gr.results[1].line_number = 2

\* C14: in the sequence grep returns, the results of any one file appear in
\* strictly ascending line_number order, however the parallel tasks interleave
\* and whatever the final truncation drops.
C14_AscendingWithinFile ==
    GrepReturned =>
        \A m, n \in 1..Len(gr.results) :
            (m < n /\ gr.results[m].file = gr.results[n].file)
                => gr.results[m].line_number < gr.results[n].line_number

\* two files were searched and two lines of one of them are returned
C14_Witness ==
    /\ GrepReturned
    /\ Len(gr.files) = 2
    /\ \A i \in 1..2 : MatchingLines(gr.files[i]) # {}
    /\ Len(gr.results) = 2
    /\ gr.results[1].file = gr.results[2].file

\* the results of the readable files of the list, in the order of the list
RECURSIVE CollectedReadable(_)
CollectedReadable(i) ==
    IF i > Len(gr.files) THEN <<>>
    ELSE (IF Readable(gr.files[i]) THEN gr.task[i].out ELSE <<>>)
             \o CollectedReadable(i + 1)

\* the task of the i-th file returns from search_file on a failure to read it
SkipsFile(i) ==
    /\ Searching(i)
    /\ ~Readable(gr.files[i])
    /\ gr.task[i].pc = "read"
    /\ gr'.task[i].pc = "done"

\* C15: a file that cannot be read (metadata, open, mmap, read, invalid
\* UTF-8) contributes no result, and skipping it neither increments
\* result_count nor sets cancelled; grep still returns success, with the
\* results of the other files.
C15_FailedFileIsSkipped ==
    /\ [](\A i \in 1..Len(gr.files) : ~Readable(gr.files[i]) => gr.task[i].out = <<>>)
    /\ []((gr.pc = "done" /\ gr.files # <<>>)
            => /\ gr.ret = "Ok"
               /\ gr.results = Take(CollectedReadable(1), gr.max_results))
    /\ [][\A i \in 1..Len(gr.files) :
              SkipsFile(i) => /\ gr'.result_count = gr.result_count
                              /\ gr'.cancelled = gr.cancelled
                              /\ gr'.task[i].out = <<>>]_vars

\* a file of the list could not be read, its task has returned, and the call
\* returned results of the other file
C15_Witness ==
    /\ GrepReturned
    /\ Len(gr.files) = 2
    /\ ~Readable(gr.files[1])
    /\ gr.task[1].pc = "done"
    /\ gr.results # <<>>
    /\ ~gr.cancelled

\* C16: the facade's grep never fails with IndexNotReady: it searches the
\* index's file list when the index is ready, and falls back to a walk of the
\* tree when the index is not ready or the lookup returns an error, also when
\* a refresh() clears readiness between the readiness check and the lookup.
C16_GrepNeverIndexNotReady ==
    (q.op = "grep" /\ q.pc = "done") =>
        /\ q.ret \in {"Ok", "Regex", "Glob"}
        /\ q.via = "index" => q.lookup = "Ok"
        /\ (q.lookup # "Ok" /\ RegexCompiles(q.query)) => q.via = "walk"
        /\ (q.via = "walk" /\ q.ret = "Ok") => Range(q.res) = WalkSelected(q.pattern)

\* the index was ready at the check, a refresh() cleared is_ready before the
\* lookup, and grep returned the result of a walk
C16_Witness ==
    /\ q.op = "grep"
    /\ q.pc = "done"
    /\ q.lookup = "IndexNotReady"
    /\ q.via = "walk"
    /\ q.ret = "Ok"
    /\ q.res # <<>>

(***************************************************************************)
(* Properties of add_path, remove_path, is_ready and is_building           *)
(***************************************************************************)
\* C17: for every sequence of add_path calls without removals between them,
\* all_files holds each path at most once: all_files has no duplicate in any
\* reachable state.
C17_AllFilesHasNoDuplicate == Len(all_files) = Cardinality(Range(all_files))

\* add_path has returned for a file that all_files already held
C17_Witness ==
    /\ wl.call = "add_path"
    /\ wl.returned
    /\ disk[wl.arg] \in {"text", "binary"}
    /\ Contains(wl.pre.all_files, wl.arg)
    /\ Contains(all_files, wl.arg)

\* C18: after remove_path(p) returns, p is absent from entries, from its
\* parent's dir_children list, from the keys of dir_children and, if p was
\* indexed as a file, from all_files; the entries, the membership in all_files
\* and the dir_children of every other path, the descendants of a directory p
\* included, are as the call found them.
C18_RemovePathFrame ==
    (wl.call = "remove_path" /\ wl.returned) =>
        LET p == wl.arg
            was_file == wl.pre.entries[p].some /\ ~wl.pre.entries[p].is_dir
        IN /\ ~entries[p].some
           /\ \A o \in Paths \ {p} : entries[o] = wl.pre.entries[o]
           /\ was_file => ~Contains(all_files, p)
           /\ all_files = IF was_file THEN Without(wl.pre.all_files, p)
                          ELSE wl.pre.all_files
           /\ \A k \in DirKeys :
                 IF k = p THEN ~dir_children[k].some
                 ELSE /\ dir_children[k].some = wl.pre.dir_children[k].some
                      /\ k = Parent(p) => ~Contains(dir_children[k].kids, p)
                      /\ dir_children[k].kids =
                             IF k = Parent(p) THEN Without(wl.pre.dir_children[k].kids, p)
                             ELSE wl.pre.dir_children[k].kids

\* remove_path has returned for a directory whose descendant is still indexed
C18_Witness ==
    /\ wl.call = "remove_path"
    /\ wl.returned
    /\ wl.arg = "d"
    /\ wl.pre.entries["d"].is_dir
    /\ wl.pre.entries["d/f"].some
    /\ entries["d/f"].some
    /\ ~entries["d"].some

\* the step is FileIndex::refresh's is_ready.store(false)
RefreshStores ==
    \E t \in BuildThreads : /\ bth[t].pc \in {"idle", "done"}
                             /\ bth'[t].pc = "cas"
                             /\ refresh_left' = refresh_left - 1

\* C19: is_ready is monotonic once true: the only step that takes it from true
\* to false is the store of an explicit refresh(); build(), add_path,
\* update_path, remove_path and close() never clear it.
C19_OnlyRefreshClearsReady == [][(is_ready /\ ~is_ready') => RefreshStores]_vars

\* refresh() has cleared is_ready, which the first build had set, and the build
\* it runs is clearing the index
C19_Witness ==
    /\ ~is_ready
    /\ bth["bg"].built
    /\ bth["caller"].pc = "clear_children"
    /\ wl.returned
    /\ stop_flag

\* thread t is between the compare-exchange it won and its final store
InBuild(t) ==
    bth[t].pc \in {"clear_entries", "clear_children", "walk", "set_ready", "clear_building"}

\* thread t returns from a build() that found is_building set
LosesExchange(t) == bth[t].pc = "cas" /\ is_building /\ bth'[t] # bth[t]

\* C20: build() is mutually exclusive: at most one thread is ever between the
\* compare-exchange on is_building and the final store to it, and a build()
\* called while another is in progress returns success at once, leaving
\* entries, dir_children and all_files as they are.
C20_BuildIsExclusive ==
    /\ [](Cardinality({t \in BuildThreads : InBuild(t)}) <= 1)
    /\ []((\E t \in BuildThreads : InBuild(t)) => is_building)
    /\ [][\A t \in BuildThreads :
              LosesExchange(t) => /\ bth'[t].pc = "done"
                                  /\ ~bth'[t].built
                                  /\ UNCHANGED <<entries, dir_children, all_files,
                                                 is_building>>]_vars

\* refresh()'s build found the first build in progress and returned, the first
\* build still walking the tree
C20_Witness ==
    /\ bth["caller"].pc = "done"
    /\ ~bth["caller"].built
    /\ bth["bg"].pc = "walk"
    /\ is_building

(***************************************************************************)
(* Properties of the glob cache                                            *)
(***************************************************************************)
\* C21: the glob cache never holds more than its capacity (128) entries in
\* any reachable state, including when several threads miss on distinct
\* patterns and insert concurrently.
C21_GlobCacheWithinCapacity == Cardinality(gc.cache) <= GLOB_CACHE_SIZE

(***************************************************************************)
(* Properties of the Debouncer                                             *)
(***************************************************************************)
\* the last call was add_event(path, kind) and met a pending entry of kind `existing`
AddedOnto(existing, kind) ==
    /\ db.op = "add_event"
    /\ db.kind = kind
    /\ db.pre[db.path].some
    /\ db.pre[db.path].kind = existing

\* the events for path p in the Vec the last call returned
EventsFor(p) == {i \in 1..Len(db.out) : db.out[i].path = p}

\* C22: when a path's pending entry is Created and a Deleted event is added
\* for it, the entry is removed entirely: add(Created p); add(Deleted p)
\* leaves no pending entry for p, and flush_all() or any later flush, until
\* add_event is called for p again, yields no event for p.
C22_CreatedThenDeletedCollapses ==
    /\ AddedOnto(Created, Deleted) => db.path \in db.collapsed
    /\ \A p \in db.collapsed : ~pending[p].some
    /\ db.op \in {"flush", "flush_all"} => \A p \in db.collapsed : EventsFor(p) = {}

\* add(Created d/f); add(Deleted d/f) beside a pending entry for t, then
\* flush_all(): one event, for t
C22_Witness ==
    /\ db.op = "flush_all"
    /\ "d/f" \in db.collapsed
    /\ Len(db.out) = 1
    /\ db.out[1].path = "t"

\* C23: when a path's pending entry is Created, adding any number of Modified
\* events keeps the entry's kind Created and leaves its timestamp, the time
\* of the Created event, unchanged, so that the next flush once the window
\* has passed since the Created event yields exactly one event for the path,
\* of kind Created.
C23_CreatedDominatesModified ==
    /\ AddedOnto(Created, Modified) => pending[db.path] = db.pre[db.path]
    /\ \A p \in Paths : db.created[p] >= 0 => pending[p] = Pending(Created, db.created[p])
    /\ db.op = "flush" =>
          \A p \in Paths :
              (db.created0[p] >= 0 /\ db.t - db.created0[p] >= DebounceTicks) =>
                  /\ Cardinality(EventsFor(p)) = 1
                  /\ \A i \in EventsFor(p) :
                        db.out[i] = FileChange(p, Created, db.created0[p])

\* add(Created t); add(Modified t) later; a flush a window after the Created
\* event and less than a window after the Modified one returns Created t
C23_Witness ==
    /\ db.op = "flush"
    /\ db.created0["t"] >= 0
    /\ db.last["t"] > db.created0["t"]
    /\ db.t - db.last["t"] < DebounceTicks
    /\ db.out = <<FileChange("t", Created, db.created0["t"])>>

\* C24: for every pair (existing, new) of change kinds on the same path other
\* than (Created, Deleted) and (Created, Modified), add_event overwrites the
\* pending entry with the new kind and sets its timestamp to the time of the
\* new event; the pending entries of the other paths are unchanged, and the
\* debouncer holds at most one pending entry per path (flush_all returns no
\* path twice).
C24_OtherPairsOverwrite ==
    /\ (/\ db.op = "add_event"
        /\ db.pre[db.path].some
        /\ ~AddedOnto(Created, Deleted)
        /\ ~AddedOnto(Created, Modified)) => pending[db.path] = Pending(db.kind, db.t)
    /\ db.op = "add_event" => \A p \in Paths \ {db.path} : pending[p] = db.pre[p]
    /\ db.op = "flush_all" => \A p \in Paths : Cardinality(EventsFor(p)) <= 1

\* add(Modified d/f) at time 0 and, a tick later, add(Deleted d/f), beside a
\* pending entry for t
C24_Witness ==
    /\ AddedOnto(Modified, Deleted)
    /\ db.path = "d/f"
    /\ db.pre["d/f"].ts < db.t
    /\ pending["d/f"] = Pending(Deleted, db.t)
    /\ pending["t"].some

\* the entries of pend that are at least the debounce window old at time t
OldEnough(pend, t) == {p \in Paths : pend[p].some /\ pend[p].ts + DebounceTicks <= t}

\* the last call returned exactly the entries of the paths S, as they were
ReturnedExactly(S) ==
    /\ Len(db.out) = Cardinality(S)
    /\ \A p \in S : \E i \in 1..Len(db.out) :
          db.out[i] = FileChange(p, db.pre[p].kind, db.pre[p].ts)

\* C25: flush() returns and removes exactly the pending entries whose
\* timestamp is at least `duration` in the past and leaves every younger
\* entry pending and unchanged (an entry that add_event stored at this very
\* instant is not returned); flush_all() returns every pending entry and
\* leaves pending empty; an entry that a flush returned is pending no more,
\* so that no later flush returns it again.
C25_FlushReturnsTheOldEntries ==
    /\ db.op = "flush" =>
          /\ ReturnedExactly(OldEnough(db.pre, db.t))
          /\ \A p \in Paths : pending[p] = IF p \in OldEnough(db.pre, db.t) THEN NoPending
                                                                           ELSE db.pre[p]
          /\ \A i \in 1..Len(db.out) : db.out[i].timestamp < db.t
    /\ db.op = "flush_all" =>
          /\ ReturnedExactly(HasPending(db.pre))
          /\ \A p \in Paths : ~pending[p].some
    /\ db.op \in {"flush", "flush_all"} =>
          \A i \in 1..Len(db.out) : ~pending[db.out[i].path].some

\* a flush that returns the entry of d/f, exactly a window old, and leaves the
\* younger entry of t pending
C25_Witness ==
    /\ db.op = "flush"
    /\ Len(db.out) = 1
    /\ db.out[1].path = "d/f"
    /\ db.out[1].timestamp + DebounceTicks = db.t
    /\ pending["t"].some
    /\ pending["t"] = db.pre["t"]

\* C26: a path's pending change is emitted by flush() only after the path
\* has experienced a quiet period of at least the debounce window: when an
\* entry is flushed, no event for its path was added to the debouncer during
\* the preceding `duration`.
C26_FlushedAfterQuietPeriod ==
    db.op = "flush" =>
        \A i \in 1..Len(db.out) : db.t - db.last[db.out[i].path] >= DebounceTicks

(***************************************************************************)
(* Properties of the watcher loop, pending_changes() and close()           *)
(***************************************************************************)
\* C27: the changes returned by one debouncer flush are applied to the index
\* in ascending order of their timestamps: no change of the flush that is
\* still to be applied has a timestamp below that of the change the watcher
\* loop is applying.
C27_AppliedInTimestampOrder ==
    \A i \in 1..Len(wl.events) : wl.events[i].timestamp >= wl.ts

\* C28: with auto_watch = true and the facade open, after a file is created
\* under root and the debounce window has elapsed, the index eventually
\* contains the new file, under every interleaving of the caller's
\* pending_changes() call with the watcher-loop thread: once every event has
\* been received, debounced and flushed and the loop has applied what it was
\* given, every file of the tree that the ignore rules honour is in entries.
C28_CreatedFileReachesIndex ==
    (Quiescent /\ ~stop_flag) =>
        \A p \in Honoured(disk) : disk[p] # "dir" => entries[p].some

\* C29: no mutation of the index (add_path, update_path, remove_path, or a
\* build's clear / insert / all_files replacement) occurs after close() has
\* returned, for every interleaving of close() with the watcher-loop thread
\* and the background build thread.
C29_NoIndexMutationAfterClose ==
    [][stop_flag => UNCHANGED <<entries, dir_children, all_files>>]_vars

\* FileSystem::is_watching
is_watching == wl.pc # "off" /\ ~stop_flag

\* C30: after close() the watcher-loop thread terminates and event
\* processing ceases: from then on no raw event is drained from the queue and
\* the debouncer's pending map is no longer modified, by the loop or by any
\* facade method such as pending_changes(), and is_watching() returns false.
C30_ProcessingCeasesAfterClose ==
    [][(stop_flag /\ wl.pc = "exit") =>
          /\ pending' = pending
          /\ Len(event_rx') >= Len(event_rx)
          /\ SubSeq(event_rx', 1, Len(event_rx)) = event_rx
          /\ ~is_watching']_vars

(***************************************************************************)
(* Properties of read_batch                                                *)
(***************************************************************************)
\* the mapping from every path of the list that reads to its content
ReadableContents(paths, files) ==
    [f \in BatchFiles |-> IF (\E i \in 1..Len(paths) : paths[i] = f) /\ files[f] # "none"
                          THEN files[f] ELSE "absent"]

\* C31: read_batch never fails: for any list of paths, read serially (fewer
\* than 30 paths) or in parallel (30 or more), the result maps exactly the
\* paths that read to their contents and omits every path whose read failed;
\* the serial and the parallel function return the same mapping for the same
\* list.
C31_ReadBatchMapsReadablePaths ==
    rb.pc = "done" =>
        /\ rb.ret = "Ok"
        /\ rb.result = ReadableContents(rb.paths, rb.files)

\* a parallel read of 30 paths that name a file that reads and one that does
\* not has returned the one key
C31_Witness ==
    /\ rb.pc = "done"
    /\ rb.via = "parallel"
    /\ Len(rb.paths) = PARALLEL_READ_THRESHOLD
    /\ rb.files["a"] = "x"
    /\ rb.files["b"] = "none"
    /\ rb.paths[1] = "a"
    /\ rb.paths[2] = "b"
    /\ rb.result = [EmptyMap EXCEPT !["a"] = "x"]

(***************************************************************************)
(* Properties of process_events                                            *)
(***************************************************************************)
\* the mapping table: the raw kinds that map to one ChangeKind per path
MappedKinds == {"Create", "ModifyData", "RenameFrom", "RenameTo", "Remove"}
MappedKind(kind) ==
    CASE kind = "Create" -> Created
      [] kind = "ModifyData" -> Modified
      [] kind = "RenameFrom" -> Deleted
      [] kind = "RenameTo" -> Created
      [] kind = "Remove" -> Deleted

\* the pending map once an event of kind `kind` was added for each of `paths`
RECURSIVE AddedForEach(_, _, _, _)
AddedForEach(pend, paths, kind, t) ==
    IF paths = <<>> THEN pend
    ELSE AddedForEach(add_event(pend, paths[1], kind, t), Tail(paths), kind, t)

\* the pending map that the table prescribes after one raw event
Translated(pend, ev, t) ==
    IF ev.kind \in MappedKinds THEN AddedForEach(pend, ev.paths, MappedKind(ev.kind), t)
    ELSE IF ev.kind = "RenameBoth" /\ Len(ev.paths) = 2
    THEN add_event(pend, ev.paths[1], Renamed(ev.paths[1], ev.paths[2]), t)
    ELSE pend

RECURSIVE TranslatedAll(_, _, _)
TranslatedAll(pend, raw, t) ==
    IF raw = <<>> THEN pend
    ELSE TranslatedAll(Translated(pend, raw[1], t), Tail(raw), t)

\* C32: process_events translates raw events by the mapping table: Create ->
\* Created, Modify(Data) -> Modified, Modify(Name, From) -> Deleted,
\* Modify(Name, To) -> Created, Remove -> Deleted, each applied to every path
\* of the event; Modify(Name, Both) with two paths adds a single
\* Renamed{from, to} entry keyed on `from`; a rename without both paths and
\* every other raw event kind leave the pending map unchanged.  A call
\* leaves the pending map the table prescribes for the events it received,
\* less the entries the closing flush returned.
C32_EventsFollowTheTable ==
    [][pe' # pe =>
          pending' = RemoveAll(TranslatedAll(pending, event_rx, now),
                               OldEnough(TranslatedAll(pending, event_rx, now), now))]_vars

\* a call received a Both rename of d/f to t, and the next, at once, a Both
\* rename that carries one path only: a single Renamed entry, on d/f
C32_Witness ==
    /\ pe.called
    /\ pe.raw = <<RawEvent("RenameBoth", <<"t">>)>>
    /\ pending["d/f"] = Pending(Renamed("d/f", "t"), now)
    /\ ~pending["t"].some

(***************************************************************************)
(* Properties of the facade's calls beside the watcher loop                *)
(***************************************************************************)
\* C33: the debouncer's pending map is single-writer: the only thread that
\* takes the debouncer's write lock and adds to or flushes pending is the
\* facade's watcher-loop thread, so every step that changes the pending map
\* is a step of that thread.
C33_OnlyTheLoopWritesPending ==
    [][pending' # pending => (wl' # wl /\ pch' = pch)]_vars

\* C39: every change that a flush removes from the debouncer is applied to
\* the index exactly once: no call on the facade (pending_changes() in
\* particular) drains raw events or flushes debounced changes without the
\* corresponding add_path, update_path or remove_path being performed.  A
\* step that flushes the entry of a path is a step of the watcher loop, which
\* takes the change up to apply it.
C39_FlushedChangesReachTheIndex ==
    [][\A p \in Paths :
          (p \in FlushReady(Debounced, now) /\ event_rx' = <<>> /\ ~pending'[p].some)
          => /\ wl' # wl
             /\ \/ wl'.path = p
                \/ \E i \in 1..Len(wl'.events) : wl'.events[i].path = p]_vars

(***************************************************************************)
(* Properties of the Searcher's counter and flag                           *)
(***************************************************************************)
\* C34: the cancellation protocol of grep: a worker emits a result only if
\* its compare-and-update saw a result_count below max_results; the flag is
\* stored exactly after an update that saw result_count >= max_results (the
\* emission skipped) or that brought it to max_results (after the emission);
\* so cancelled is never true while result_count < max_results, and once
\* cancelled is set no worker emits anything further.
C34_CancellationProtocol ==
    [][/\ Len(Emitted') > Len(Emitted) =>
              /\ gr.result_count < gr.max_results
              /\ gr'.result_count = gr.result_count + 1
       /\ \A i \in 1..Len(gr.files) :
              (gr.pc = "search" /\ gr.task[i].pc = "update" /\ gr'.task[i].pc # "update") =>
                  ((gr'.task[i].pc = "cancel") <=>
                       (gr.result_count >= gr.max_results
                            \/ gr'.result_count = gr.max_results))
       /\ (gr'.cancelled /\ ~gr.cancelled) =>
              \E i \in 1..Len(gr.files) : gr.task[i].pc = "cancel"
       /\ gr'.cancelled => gr'.result_count >= gr'.max_results
       /\ gr.cancelled => Emitted' = Emitted]_vars

\* the second task brought result_count to max_results and stored the flag;
\* the first, on a matching line, saw the count at the limit and emitted
\* nothing
C34_Witness ==
    /\ gr.pc = "search"
    /\ Len(gr.files) = 2
    /\ gr.cancelled
    /\ gr.max_results = 1
    /\ gr.result_count = 1
    /\ gr.task[2].out # <<>>
    /\ gr.task[1].pc = "cancel"
    /\ gr.task[1].out = <<>>

QueueCapacity == MaxChanges - 1

\* C35: the watcher's queue of raw events is bounded: in every reachable
\* state, also after close(), when the loop no longer drains the queue and
\* the platform watcher still sends, the number of queued raw events does
\* not exceed a fixed capacity.
C35_RawEventQueueIsBounded == Len(event_rx) <= QueueCapacity

(***************************************************************************)
(* Properties of build() and refresh() together                            *)
(***************************************************************************)
\* C36: IndexNotReady is transient: under every interleaving of concurrent
\* build() and refresh() calls, a refresh() issued while the initial
\* background build is finishing included, once all such calls have returned
\* is_ready is true; the index is never left with is_ready = false and no
\* build in progress.
C36_ReadyOnceCallsReturned ==
    (\A t \in BuildThreads : bth[t].pc \in {"idle", "done"}) => is_ready

(***************************************************************************)
(* Properties of the incremental index calls and of debouncing             *)
(***************************************************************************)
\* C37: on a ready index, after any sequence of completed add_path,
\* update_path and remove_path calls, the disk changing between the calls (a
\* path switching between file and directory, say), the entries with
\* is_dir = false are exactly the paths of all_files; they differ only inside
\* a call.
C37_FileEntriesAreAllFiles ==
    (is_ready /\ WatcherBetweenCalls) => IndexedFiles = Range(all_files)

\* C40: debouncing preserves the net effect on the index: for every sequence
\* of Created, Modified and Deleted events on one path within a debounce
\* window (Deleted, Created, Deleted on an indexed file, say), applying the
\* single merged change the debouncer flushes, or nothing when the entry
\* collapsed, leaves the path's index membership as applying each event in
\* order would.  Applied in order, the events leave a path the ignore rules
\* honour in the index exactly when it exists; so it is once every change
\* has been flushed and applied.
C40_MergedChangeKeepsMembership ==
    Quiescent => \A p \in Paths \ Ignored : entries[p].some <=> disk[p] # "none"

====
